---- MODULE Spec2Model ----
(***************************************************************************)
(* A state-machine model of the webgpu-geo map engine: the LayerManager   *)
(* (id -> layer map plus render-order sequence), the Layer presentation   *)
(* state, the Engine / GlobeRenderer handle lifecycle and the AIMap       *)
(* asynchronous initialization, frame loop, stop() and destroy().         *)
(*                                                                         *)
(* JavaScript runs one task at a time, so every synchronous method is one *)
(* action.  An async method is cut at each await: the part up to the      *)
(* await is one action, every continuation is another, and any other      *)
(* call may run in between.                                               *)
(***************************************************************************)
EXTENDS Integers, Sequences, FiniteSets, Bags, TLC

\* ------------------------------------------------------------------ bounds
\* Number of addLayer calls suspended at their await at the same time.
MaxPending == 2
\* zIndex inputs range over 0..MaxZ.
MaxZ == 2

\* The layer ids callers use; the ids addPointLayer is called with.
Ids == {"a", "b", "c"}
PointIds == {"a", "b"}
ZVals == 0..MaxZ

\* The render-order sequence and the addLayer calls in flight together are
\* kept to one slot per layer id.
MaxLayers == Cardinality(Ids)

\* Opacity is counted in steps of 1 / OpacitySteps, so 1.0 is OpacitySteps.
OpacitySteps == 2

\* Auto-rotation and horizontal drags are followed until the camera's azimuth
\* is MaxYaw steps of 0.005 rad away from a whole number of degrees.
MaxYaw == 2
\* Wheel and +/- key zoom steps are followed while the zoom is a ratio with a
\* denominator up to MaxZoomDen.
MaxZoomDen == 10
MaxAltSteps == 3
MaxTextures == 4
MaxLoading == 2
MaxBuffers == 9
MaxInits == 2
MaxCanvas == 2
MaxResizes == 2
MaxSwitches == 3
MaxSegments == 4
MaxPoints == 2
MaxPointBuffers == 3

\* Where the host can make GPU bring-up fail (Engine.initialize).
GpuEnvs == {"ok", "noGpu", "noAdapter", "noContext"}

VARIABLES
    layers,         \* LayerManager.layers, a JS Map: the entries (a Layer each,
                    \* with its id as key) in the Map's insertion order
    layerOrder,     \* LayerManager.layerOrder: sequence of ids
    pending,        \* bag of the addLayer calls suspended at `await layer.initialize()`
    lastCall,       \* the call (or continuation) run by the last step and its result
    destroyCalls,   \* per layer id, the Layer.destroy() calls made by the last step
    gpuEnv,         \* the host: which step of GPU bring-up fails, if any
    initPc,         \* where AIMap.initialize() stands
    engine,         \* Engine fields: device, context, canvas (TRUE = held)
    renderer,       \* GlobeRenderer: the set of handle fields that are non-null
    frameScheduled, \* AIMap.animationFrameId !== null
    frameLog,       \* what the last frame tick did, in issue order
    showGridLines,  \* GlobeRenderer.showGridLines
    stopCalled,     \* history: stop() has been called
    destroyCalled,  \* history: destroy() has been called
    camera,         \* Camera.position, in polar form about the world origin
    zoom,           \* AIMap.options.zoom
    center,         \* AIMap.options.center: <<longitude, latitude>> in degrees
    autoRotate,     \* AIMap.autoRotate
    isDragging,     \* AIMap.isDragging
    geo,            \* GeoDataLoader coordinate conversion: arguments and results
    textureCache,   \* TextureManager.textureCache: per key the texture held (0: no entry)
    gpuTextures,    \* the textures TextureManager created, in creation order,
                    \* each with its key and the destroy() calls it received
    loading,        \* bag of the loadTextureFromURL calls suspended at an await
    handles,        \* GlobeRenderer buffer and depth-texture fields: the object
                    \* each holds, as its place in gpuBuffers (0: null)
    gpuBuffers,     \* the buffers and depth textures GlobeRenderer created, in
                    \* creation order, each with the destroy() calls it received
    gridPipeline,   \* GlobeRenderer.gridPipeline: the descriptor it was created from
    canvas,         \* the canvas's current size, <<width, height>>
    canvasWidth,    \* GlobeRenderer.canvasWidth / canvasHeight: the size the
                    \* depth texture was made for
    globePc,        \* where GlobeRenderer.initialize() stands
    initCalls,      \* history: the GlobeRenderer.initialize() calls made
    gridSwitches,   \* history: the setGridLinesVisible calls that changed
                    \* showGridLines (counted up to MaxSwitches)
    uniformBindGroup, \* GlobeRenderer.uniformBindGroup: the bind group layout
                    \* it was created with ("null": no bind group)
    sphere,         \* a sphere geometry generation: its arguments, the loop it
                    \* is in with the loop variables, and what it has pushed
    pointLayer,     \* a PointLayer: its fields and where its initialize() stands
    pointBuffers,   \* the buffers the PointLayer created, in creation order,
                    \* each with its content and the destroy() calls it received
    pointDraws      \* the draw calls of the last PointLayer.render()

lmVars == <<layers, layerOrder, pending>>
camVars == <<camera, zoom, center, autoRotate, isDragging>>
texVars == <<textureCache, gpuTextures, loading>>
globeVars == <<handles, gpuBuffers, gridPipeline, canvas, canvasWidth, globePc,
               initCalls, gridSwitches, uniformBindGroup>>
pointVars == <<pointLayer, pointBuffers, pointDraws>>
extVars == <<sphere, pointVars>>
auxVars == <<geo, texVars, globeVars, extVars>>
mapVars == <<auxVars, gpuEnv, initPc, engine, renderer, frameScheduled, frameLog,
             showGridLines, stopCalled, destroyCalled, camVars>>
vars == <<layers, layerOrder, pending, lastCall, destroyCalls, gpuEnv, initPc,
          engine, renderer, frameScheduled, frameLog, showGridLines, stopCalled,
          destroyCalled, camera, zoom, center, autoRotate, isDragging, geo,
          textureCache, gpuTextures, loading, handles, gpuBuffers, gridPipeline,
          canvas, canvasWidth, globePc, initCalls, gridSwitches, uniformBindGroup,
          sphere, pointLayer, pointBuffers, pointDraws>>

NoDestroys == [id \in Ids |-> 0]

\* ------------------------------------------------------------- Layer.ts
\* A Layer as constructed: visible = true, zIndex as set by the caller
\* before it is handed to addLayer.
\* A JS number: a ratio n / d of integers in lowest terms (d > 0), or NaN.
RECURSIVE Gcd(_, _)
Gcd(a, b) == IF b = 0 THEN a ELSE Gcd(b, a % b)

Abs(n) == IF n < 0 THEN 0 - n ELSE n

Ratio(n, d) ==
    LET g == Gcd(Abs(n), d) IN [nan |-> FALSE, n |-> n \div g, d |-> d \div g]

NaN == [nan |-> TRUE, n |-> 0, d |-> 1]

Leq(x, y) == x.n * y.d <= y.n * x.d

\* Math.min / Math.max: NaN if either argument is NaN.
MathMin(x, y) == IF x.nan \/ y.nan THEN NaN ELSE IF Leq(x, y) THEN x ELSE y
MathMax(x, y) == IF x.nan \/ y.nan THEN NaN ELSE IF Leq(y, x) THEN x ELSE y

\* x * y and x / y for y > 0; NaN if either is NaN.
Times(x, y) == IF x.nan \/ y.nan THEN NaN ELSE Ratio(x.n * y.n, x.d * y.d)
Over(x, y) == IF x.nan \/ y.nan THEN NaN ELSE Ratio(x.n * y.d, x.d * y.n)

\* The opacity arguments callers pass: below 0, inside [0, 1], above 1, NaN.
OpacityInputs ==
    {Ratio(v, OpacitySteps) : v \in (0 - 1)..(OpacitySteps + 1)} \cup {NaN}

\* Layer.setOpacity: Math.max(0, Math.min(1, opacity)).
SetOpacity(opacity) == MathMax(Ratio(0, 1), MathMin(Ratio(1, 1), opacity))

NewLayer(id, z) ==
    [id |-> id, zIndex |-> z, visible |-> TRUE, opacity |-> Ratio(1, 1)]

\* What a layer's initialize() delivers.  PointLayer: false when it found no
\* device; with a device nothing is caught, so the GPU object creation either
\* goes through or throws (createShaders builds its bind group from
\* this.uniformBuffer before initialize() has created that buffer).
InitializeOutcomes(device) ==
    IF ~device THEN {"false"} ELSE {"true", "throw"}

\* ------------------------------------------------------------ JS Map
MapHas(m, id) == \E i \in 1..Len(m) : m[i].id = id

MapGet(m, id) == m[CHOOSE i \in 1..Len(m) : m[i].id = id]

\* Map.set: a new key goes to the end, an existing key keeps its place.
MapSet(m, l) ==
    IF MapHas(m, l.id)
    THEN [i \in 1..Len(m) |-> IF m[i].id = l.id THEN l ELSE m[i]]
    ELSE Append(m, l)

MapDelete(m, id) == SelectSeq(m, LAMBDA l : l.id # id)

\* ------------------------------------------------------ LayerManager.ts
Has(id) == MapHas(layers, id)

\* Array.prototype.indexOf: first position of id, 0 when absent.
IndexOf(s, id) ==
    IF \E i \in 1..Len(s) : s[i] = id
    THEN CHOOSE i \in 1..Len(s) : s[i] = id /\ \A j \in 1..(i - 1) : s[j] # id
    ELSE 0

\* Array.prototype.splice(index, 1).
Splice(s, i) == [j \in 1..(Len(s) - 1) |-> IF j < i THEN s[j] ELSE s[j + 1]]

\* Array.prototype.sort with comparator zIndex(a) - zIndex(b): a stable sort,
\* written as insertion of each element after the elements not greater.
RECURSIVE InsertByZ(_, _, _)
InsertByZ(s, id, z) ==
    IF s = <<>> THEN <<id>>
    ELSE IF z[Head(s)] <= z[id] THEN <<Head(s)>> \o InsertByZ(Tail(s), id, z)
    ELSE <<id>> \o s

RECURSIVE SortByZ(_, _)
SortByZ(s, z) ==
    IF s = <<>> THEN <<>>
    ELSE InsertByZ(SortByZ(SubSeq(s, 1, Len(s) - 1), z), s[Len(s)], z)

\* A sortLayers() that leaves the sequence as it finds it.
SortLayersSkipped(order, m) == order

\* sortLayers(): keys are read through the map at the time of the sort.
SortLayers(order, m) ==
    SortByZ(order, [id \in Ids |-> IF MapHas(m, id) THEN MapGet(m, id).zIndex ELSE 0])

\* The comparator dereferences layers.get(id)!: with two or more elements to
\* compare, an id of the sequence that has no map entry makes it throw.
SortThrows(order, m) ==
    Len(order) >= 2 /\ \E i \in 1..Len(order) : ~MapHas(m, order[i])

Count(s, id) == Cardinality({i \in 1..Len(s) : s[i] = id})

\* What a sort abandoned by a throwing comparator may leave in the array:
\* the same elements in an implementation-defined order.
Perms(s) ==
    {t \in [1..Len(s) -> Ids] : \A id \in Ids : Count(t, id) = Count(s, id)}

\* A call as lastCall records it: the method, the id or key it was given,
\* its numeric argument if it has one, and what it returned.
CallWith(op, id, ret, arg) == [op |-> op, id |-> id, ret |-> ret, arg |-> arg]

Call(op, id, ret) == CallWith(op, id, ret, Ratio(0, 1))

\* addLayer up to its await: the duplicate check, then layer.initialize() is
\* started (it looks for the device at once) and the call is suspended with
\* the layer it was given.
AddLayerCall(id, z) ==
    /\ IF Has(id)
       THEN /\ lastCall' = Call("addLayer", id, "false")
            /\ UNCHANGED pending
       ELSE /\ BagCardinality(pending) < MaxPending
            /\ Len(layerOrder) + BagCardinality(pending) < MaxLayers
            /\ pending' = pending (+) SetToBag({[id |-> id, zIndex |-> z,
                                                 device |-> engine.device]})
            /\ lastCall' = Call("addLayer", id, "pending")
    /\ destroyCalls' = NoDestroys
    /\ UNCHANGED <<layers, layerOrder, mapVars>>

\* An addLayer that registers the layer without looking at what initialize()
\* resolved to.
AddLayerSettleUnchecked(c, r) ==
    /\ layers' = MapSet(layers, NewLayer(c.id, c.zIndex))
    /\ layerOrder' = SortLayers(Append(layerOrder, c.id), layers')
    /\ lastCall' = Call("addLayer", c.id, r)

\* addLayer after its await: initialize() has settled with result r.
AddLayerSettle(c, r) ==
    IF r = "true"
    THEN LET m == MapSet(layers, NewLayer(c.id, c.zIndex))
             pushed == Append(layerOrder, c.id)
         IN /\ layers' = m
            /\ IF SortThrows(pushed, m)
               THEN /\ layerOrder' \in Perms(pushed)
                    /\ lastCall' = Call("addLayer", c.id, "throw")
               ELSE /\ layerOrder' = SortLayers(pushed, m)
                    /\ lastCall' = Call("addLayer", c.id, "true")
    ELSE /\ lastCall' = Call("addLayer", c.id, r)
         /\ UNCHANGED <<layers, layerOrder>>

AddLayerResume(c) ==
    /\ BagIn(c, pending)
    /\ pending' = pending (-) SetToBag({c})
    /\ \E r \in InitializeOutcomes(c.device) : AddLayerSettle(c, r)
    /\ destroyCalls' = NoDestroys
    /\ UNCHANGED mapVars

RemoveLayer(id) ==
    /\ IF ~Has(id)
       THEN /\ lastCall' = Call("removeLayer", id, "false")
            /\ destroyCalls' = NoDestroys
            /\ UNCHANGED lmVars
       ELSE LET i == IndexOf(layerOrder, id)
            IN /\ destroyCalls' = [NoDestroys EXCEPT ![id] = 1]
               /\ layers' = MapDelete(layers, id)
               /\ layerOrder' = IF i > 0 THEN Splice(layerOrder, i) ELSE layerOrder
               /\ lastCall' = Call("removeLayer", id, "true")
               /\ UNCHANGED pending
    /\ UNCHANGED mapVars

SetLayerVisible(id, v) ==
    /\ IF Has(id)
       THEN /\ layers' = MapSet(layers, [MapGet(layers, id) EXCEPT !.visible = v])
            /\ lastCall' = Call("setLayerVisible", id, "true")
            /\ UNCHANGED <<layerOrder, pending>>
       ELSE /\ lastCall' = Call("setLayerVisible", id, "false")
            /\ UNCHANGED lmVars
    /\ destroyCalls' = NoDestroys
    /\ UNCHANGED mapVars

SetLayerOpacity(id, opacity) ==
    /\ IF Has(id)
       THEN /\ layers' = MapSet(layers, [MapGet(layers, id) EXCEPT
                                             !.opacity = SetOpacity(opacity)])
            /\ lastCall' = Call("setLayerOpacity", id, "true")
            /\ UNCHANGED <<layerOrder, pending>>
       ELSE /\ lastCall' = Call("setLayerOpacity", id, "false")
            /\ UNCHANGED lmVars
    /\ destroyCalls' = NoDestroys
    /\ UNCHANGED mapVars

SetLayerZIndex(id, z) ==
    /\ IF Has(id)
       THEN LET m == MapSet(layers, [MapGet(layers, id) EXCEPT !.zIndex = z])
            IN /\ layers' = m
               /\ IF SortThrows(layerOrder, m)
                  THEN /\ layerOrder' \in Perms(layerOrder)
                       /\ lastCall' = Call("setLayerZIndex", id, "throw")
                  ELSE /\ layerOrder' = SortLayers(layerOrder, m)
                       /\ lastCall' = Call("setLayerZIndex", id, "true")
               /\ UNCHANGED pending
       ELSE /\ lastCall' = Call("setLayerZIndex", id, "false")
            /\ UNCHANGED lmVars
    /\ destroyCalls' = NoDestroys
    /\ UNCHANGED mapVars

\* A moveLayerToTop that re-sorts after moving.
MoveLayerToTopSorted(id) ==
    /\ LET i == IndexOf(layerOrder, id)
       IN IF Has(id) /\ i > 0
          THEN /\ layerOrder' = SortLayers(Append(Splice(layerOrder, i), id), layers)
               /\ lastCall' = Call("moveLayerToTop", id, "true")
               /\ UNCHANGED <<layers, pending>>
          ELSE /\ lastCall' = Call("moveLayerToTop", id, "false")
               /\ UNCHANGED lmVars
    /\ destroyCalls' = NoDestroys
    /\ UNCHANGED mapVars

MoveLayerToTop(id) ==
    /\ LET i == IndexOf(layerOrder, id)
       IN IF Has(id) /\ i > 0
          THEN /\ layerOrder' = Append(Splice(layerOrder, i), id)
               /\ lastCall' = Call("moveLayerToTop", id, "true")
               /\ UNCHANGED <<layers, pending>>
          ELSE /\ lastCall' = Call("moveLayerToTop", id, "false")
               /\ UNCHANGED lmVars
    /\ destroyCalls' = NoDestroys
    /\ UNCHANGED mapVars

MoveLayerToBottom(id) ==
    /\ LET i == IndexOf(layerOrder, id)
       IN IF Has(id) /\ i > 0
          THEN /\ layerOrder' = <<id>> \o Splice(layerOrder, i)
               /\ lastCall' = Call("moveLayerToBottom", id, "true")
               /\ UNCHANGED <<layers, pending>>
          ELSE /\ lastCall' = Call("moveLayerToBottom", id, "false")
               /\ UNCHANGED lmVars
    /\ destroyCalls' = NoDestroys
    /\ UNCHANGED mapVars

\* clear(): destroy() on every value of the map, then both structures reset.
ClearDestroys == [id \in Ids |-> IF Has(id) THEN 1 ELSE 0]

\* A clear() that empties the map but forgets the render order.
ClearMapOnly(op) ==
    /\ destroyCalls' = ClearDestroys
    /\ layers' = <<>>
    /\ lastCall' = Call(op, "", "void")
    /\ UNCHANGED <<layerOrder, pending, mapVars>>

ClearAs(op) ==
    /\ destroyCalls' = ClearDestroys
    /\ layers' = <<>>
    /\ layerOrder' = <<>>
    /\ lastCall' = Call(op, "", "void")
    /\ UNCHANGED <<pending, mapVars>>

Clear == ClearAs("clear")

\* LayerManager.destroy(): clear().
LayerManagerDestroy == ClearAs("LayerManager.destroy")

\* An iteration that forgets to look at the visible flag.
VisibleInOrderAll(order) == SelectSeq(order, LAMBDA id : Has(id))

\* update(deltaTime) / render(pass): the visible layers, in render order.
VisibleInOrder(order) ==
    SelectSeq(order, LAMBDA id : Has(id) /\ MapGet(layers, id).visible)

LayerEvents(kind, order) ==
    [i \in 1..Len(VisibleInOrder(order)) |-> <<kind, VisibleInOrder(order)[i]>>]

\* LayerManager.update(deltaTime) and LayerManager.render(renderPass) called
\* on their own: frameLog takes the layer calls they make.
Update ==
    /\ frameLog' = LayerEvents("update", layerOrder)
    /\ lastCall' = Call("update", "", "void")
    /\ destroyCalls' = NoDestroys
    /\ UNCHANGED <<lmVars, auxVars, gpuEnv, initPc, engine, renderer, frameScheduled,
                   showGridLines, stopCalled, destroyCalled, camVars>>

Render ==
    /\ frameLog' = LayerEvents("render", layerOrder)
    /\ lastCall' = Call("render", "", "void")
    /\ destroyCalls' = NoDestroys
    /\ UNCHANGED <<lmVars, auxVars, gpuEnv, initPc, engine, renderer, frameScheduled,
                   showGridLines, stopCalled, destroyCalled, camVars>>

\* -------------------------------------------------------------- Engine.ts
NoEngine == [device |-> FALSE, context |-> FALSE, canvas |-> FALSE]

\* Engine.initialize() after `await navigator.gpu.requestAdapter()`.
EngineAdapterResume ==
    /\ initPc = "awaitAdapter"
    /\ initPc' = IF gpuEnv = "noAdapter" THEN "engineFalse" ELSE "awaitDevice"
    /\ lastCall' = Call("Engine.initialize", "",
                        IF gpuEnv = "noAdapter" THEN "false" ELSE "pending")
    /\ destroyCalls' = NoDestroys
    /\ UNCHANGED <<lmVars, auxVars, gpuEnv, engine, renderer, frameScheduled, frameLog,
                   showGridLines, stopCalled, destroyCalled, camVars>>

\* Engine.initialize() after `await adapter.requestDevice()`: the device is
\* stored first, then the context is asked of this.canvas (null once
\* Engine.destroy() has run, which makes the call throw).
EngineDeviceResume ==
    /\ initPc = "awaitDevice"
    /\ IF ~engine.canvas
       THEN /\ engine' = [engine EXCEPT !.device = TRUE]
            /\ initPc' = "engineThrow"
            /\ lastCall' = Call("Engine.initialize", "", "throw")
       ELSE IF gpuEnv = "noContext"
       THEN /\ engine' = [engine EXCEPT !.device = TRUE, !.context = FALSE]
            /\ initPc' = "engineFalse"
            /\ lastCall' = Call("Engine.initialize", "", "false")
       ELSE /\ engine' = [engine EXCEPT !.device = TRUE, !.context = TRUE]
            /\ initPc' = "engineTrue"
            /\ lastCall' = Call("Engine.initialize", "", "true")
    /\ destroyCalls' = NoDestroys
    /\ UNCHANGED <<lmVars, auxVars, gpuEnv, renderer, frameScheduled, frameLog,
                   showGridLines, stopCalled, destroyCalled, camVars>>

EngineDestroy == NoEngine

\* ------------------------------------------------------- GlobeRenderer.ts
GridBuffers == {"gridVertexBuffer", "gridIndexBuffer"}

\* initialize() up to `await this.createTextures()`.
RendererBeforeAwait(grid) ==
    {"textureManager", "vertexBuffer", "indexBuffer", "earthTexture",
     "normalTexture", "earthSampler", "normalSampler"}
    \cup (IF grid THEN GridBuffers ELSE {})

\* initialize() from the await to `return true`.
RendererAfterAwait(grid) ==
    {"uniformBuffer", "uniformBindGroup", "pipeline", "depthTexture"}
    \cup (IF grid THEN {"gridPipeline"} ELSE {})

\* The handles render() requires before it draws anything.
RenderReady ==
    /\ engine.device /\ engine.context
    /\ {"pipeline", "vertexBuffer", "indexBuffer", "uniformBindGroup"} \subseteq renderer

\* GlobeRenderer.render(): the events it issues, and the handles afterwards
\* (updateDepthTexture re-creates a missing depth texture).
RenderEvents == IF RenderReady THEN <<<<"globe", "">>, <<"submit", "">>>> ELSE <<>>

RenderHandles == IF RenderReady THEN renderer \cup {"depthTexture"} ELSE renderer

\* GlobeRenderer.destroy(): returns at once when the engine has no device.
RendererDestroy == IF engine.device THEN {} ELSE renderer

\* ------------------------------------------- Camera.ts, camera control
\* An angle deg degrees + rad * 0.005 radians, kept exact.  The auto-rotate
\* speed is 0.005 rad (1 step), a dragged pixel 0.01 rad (2 steps), a key
\* press 0.1 rad (20 steps).
Ang(d, r) == [deg |-> d, rad |-> r]

AngAdd(a, b) == Ang(a.deg + b.deg, a.rad + b.rad)
AngSub(a, b) == Ang(a.deg - b.deg, a.rad - b.rad)

\* The sign of the angle as a real number: deg * pi / 180 + rad / 200 has the
\* sign of 10 * pi * deg + 9 * rad, and for |deg| < 1017 that of
\* 3550 * deg + 1017 * rad (pi between 355/113 - 3/10^7 and 355/113).
AngSign(a) == 3550 * a.deg + 1017 * a.rad

\* The angle brought into [0, 2 pi).
RECURSIVE WrapTurn(_)
WrapTurn(a) ==
    IF AngSign(a) < 0 THEN WrapTurn(AngAdd(a, Ang(360, 0)))
    ELSE IF AngSign(AngSub(a, Ang(360, 0))) >= 0 THEN WrapTurn(AngSub(a, Ang(360, 0)))
    ELSE a

\* A direction given by an angle t from world-up measured along a meridian:
\* its polar angle acos(y / length) in [0, pi], and whether it lies on the
\* far side of the Y axis (azimuth turned by 180 degrees).
Fold(t) ==
    LET w == WrapTurn(t)
    IN IF AngSign(AngSub(w, Ang(180, 0))) > 0
       THEN [polar |-> AngSub(Ang(360, 0), w), flip |-> TRUE]
       ELSE [polar |-> w, flip |-> FALSE]

\* Azimuths that give the same position are one azimuth.
NormYaw(a) == Ang(a.deg % 360, a.rad)

\* Camera.position as distance, polar angle from world-up and azimuth psi:
\* x = -dist sin(polar) cos(psi), y = dist cos(polar), z = dist sin(polar) sin(psi);
\* nan when the coordinates are NaN.
NaNCamera == [nan |-> TRUE, polar |-> Ang(0, 0), yaw |-> Ang(0, 0), dist |-> NaN]

\* new Camera(): position (0, 0, 3).
DefaultCamera ==
    [nan |-> FALSE, polar |-> Ang(90, 0), yaw |-> Ang(90, 0), dist |-> Ratio(3, 1)]

\* The camera is on the world Y axis: position - target is parallel to up.
OnYAxis(cam) ==
    ~cam.nan /\ (AngSign(cam.polar) = 0 \/ AngSign(AngSub(cam.polar, Ang(180, 0))) = 0)

\* updateCameraFromOptions(): distance 3 / zoom, phi = 90 - latitude,
\* theta = longitude + 180.
CameraFromOptions(z, c) ==
    LET d == Over(Ratio(3, 1), z)
        f == Fold(Ang(90 - c[2], 0))
    IN IF d.nan THEN NaNCamera
       ELSE [nan |-> FALSE, polar |-> f.polar,
             yaw |-> NormYaw(Ang(c[1] + 180 + (IF f.flip THEN 180 ELSE 0), 0)),
             dist |-> d]

\* rotateGlobeY(angle): vec3.rotateY about the origin.
RotateGlobeY(cam, a) ==
    IF cam.nan \/ OnYAxis(cam) THEN cam
    ELSE [cam EXCEPT !.yaw = NormYaw(AngAdd(cam.yaw, a))]

\* The test rotateGlobeX makes on the rotated position.
VerticalAngleOk(polar) ==
    /\ AngSign(AngSub(polar, Ang(0, 20))) > 0
    /\ AngSign(AngSub(AngSub(Ang(180, 0), Ang(0, 20)), polar)) > 0

\* A rotateGlobeX that applies the step without the test.
RotateGlobeXUnchecked(cam, a) ==
    IF cam.nan \/ OnYAxis(cam) THEN cam
    ELSE LET f == Fold(AngSub(cam.polar, a))
         IN [cam EXCEPT !.polar = f.polar,
                        !.yaw = NormYaw(AngAdd(cam.yaw, Ang(IF f.flip THEN 180 ELSE 0, 0)))]

\* rotateGlobeX(angle): the position is turned by angle about the axis
\* position x (0,1,0), which moves it towards world-up along its meridian;
\* the result is stored only if its angle from world-up passes the test.
\* On the Y axis the axis is the zero vector, mat4.fromRotation leaves the
\* identity and the position is its own image; NaN coordinates fail the test.
RotateGlobeX(cam, a) ==
    IF cam.nan \/ OnYAxis(cam) THEN cam
    ELSE LET f == Fold(AngSub(cam.polar, a))
         IN IF VerticalAngleOk(f.polar)
            THEN [cam EXCEPT !.polar = f.polar,
                             !.yaw = NormYaw(AngAdd(cam.yaw,
                                             Ang(IF f.flip THEN 180 ELSE 0, 0)))]
            ELSE cam

\* Math.max(0.5, Math.min(10, zoom)).
ClampZoom(z) == MathMax(Ratio(1, 2), MathMin(Ratio(10, 1), z))

\* setZoom's camera update: the position normalized and scaled to 3 / zoom
\* (z the clamped zoom).
ZoomCamera(cam, z) ==
    IF cam.nan \/ z.nan THEN NaNCamera
    ELSE [cam EXCEPT !.dist = Over(Ratio(3, 1), z)]

\* The positions followed: the azimuth within MaxYaw steps of a whole degree,
\* the polar angle within half a turn's worth of degrees plus steps (drags
\* over the pole add and remove half turns without end, pi being irrational).
CameraInBounds(cam) == Abs(cam.yaw.rad) <= MaxYaw /\ Abs(cam.polar.deg) <= 180

\* Inputs.
ZoomOptions == {Ratio(1, 1), Ratio(1, 4), Ratio(20, 1)}
CardinalCenters == {<<0, 0>>, <<90, 0>>, <<0 - 90, 0>>, <<180, 0>>}
ZoomInputs == {NaN, Ratio(0, 1), Ratio(3, 2), Ratio(11, 1)}
CenterInputs == {<<0, 0>>, <<90, 80>>, <<0, 90>>}
DragInputs == {<<1, 0>>, <<0 - 1, 0>>, <<0, 350>>}
OrbitKeys == {"ArrowLeft", "ArrowRight", "ArrowUp", "ArrowDown", " ", "r"}
ZoomKeys == {"ArrowUp", "+", "-", "r"}

CamStep(op, key, arg) ==
    /\ lastCall' = CallWith(op, key, "void", arg)
    /\ destroyCalls' = NoDestroys
    /\ UNCHANGED <<lmVars, auxVars, gpuEnv, initPc, engine, renderer, frameScheduled,
                   frameLog, showGridLines, stopCalled, destroyCalled>>

\* setZoom(z).
SetZoom(z) ==
    /\ zoom' = ClampZoom(z)
    /\ camera' = ZoomCamera(camera, zoom')
    /\ UNCHANGED <<center, autoRotate, isDragging>>
    /\ CamStep("setZoom", "", z)

\* setCenter(longitude, latitude).
SetCenter(c) ==
    /\ center' = c
    /\ camera' = CameraFromOptions(zoom, c)
    /\ UNCHANGED <<zoom, autoRotate, isDragging>>
    /\ CamStep("setCenter", "", Ratio(0, 1))

SetAutoRotate(enable) ==
    /\ autoRotate' = enable
    /\ UNCHANGED <<camera, zoom, center, isDragging>>
    /\ CamStep("setAutoRotate", "", Ratio(0, 1))

\* handleWheel: zoom * 0.9 when deltaY > 0, zoom * 1.1 otherwise.
HandleWheel(down) ==
    /\ zoom' = ClampZoom(Times(zoom, IF down THEN Ratio(9, 10) ELSE Ratio(11, 10)))
    /\ zoom'.d <= MaxZoomDen
    /\ camera' = ZoomCamera(camera, zoom')
    /\ UNCHANGED <<center, autoRotate, isDragging>>
    /\ CamStep("wheel", "", Ratio(0, 1))

HandleMouseDown ==
    /\ isDragging' = TRUE
    /\ autoRotate' = FALSE
    /\ UNCHANGED <<camera, zoom, center>>
    /\ CamStep("mousedown", "", Ratio(0, 1))

\* handleMouseMove with the pointer moved by d = <<dx, dy>> pixels since
\* the last event.
HandleMouseMove(d) ==
    /\ camera' = IF isDragging
                 THEN RotateGlobeX(RotateGlobeY(camera, Ang(0, 0 - 2 * d[1])),
                                   Ang(0, 2 * d[2]))
                 ELSE camera
    /\ CameraInBounds(camera')
    /\ UNCHANGED <<zoom, center, autoRotate, isDragging>>
    /\ CamStep("mousemove", "", Ratio(0, 1))

HandleMouseUp ==
    /\ isDragging' = FALSE
    /\ UNCHANGED <<camera, zoom, center, autoRotate>>
    /\ CamStep("mouseup", "", Ratio(0, 1))

\* handleKeyDown(key), controls enabled.
HandleKeyDown(key) ==
    /\ CASE key = "ArrowLeft" ->
              /\ camera' = RotateGlobeY(camera, Ang(0, 0 - 20))
              /\ UNCHANGED <<zoom, center, autoRotate>>
         [] key = "ArrowRight" ->
              /\ camera' = RotateGlobeY(camera, Ang(0, 20))
              /\ UNCHANGED <<zoom, center, autoRotate>>
         [] key = "ArrowUp" ->
              /\ camera' = RotateGlobeX(camera, Ang(0, 20))
              /\ UNCHANGED <<zoom, center, autoRotate>>
         [] key = "ArrowDown" ->
              /\ camera' = RotateGlobeX(camera, Ang(0, 0 - 20))
              /\ UNCHANGED <<zoom, center, autoRotate>>
         [] key = "+" ->
              /\ zoom' = ClampZoom(Times(zoom, Ratio(11, 10)))
              /\ camera' = ZoomCamera(camera, zoom')
              /\ UNCHANGED <<center, autoRotate>>
         [] key = "-" ->
              /\ zoom' = ClampZoom(Times(zoom, Ratio(9, 10)))
              /\ camera' = ZoomCamera(camera, zoom')
              /\ UNCHANGED <<center, autoRotate>>
         [] key = " " ->
              /\ autoRotate' = ~autoRotate
              /\ UNCHANGED <<camera, zoom, center>>
         [] key = "r" ->
              /\ zoom' = ClampZoom(Ratio(1, 1))
              /\ center' = <<0, 0>>
              /\ camera' = CameraFromOptions(zoom', center')
              /\ autoRotate' = FALSE
    /\ zoom'.d <= MaxZoomDen
    /\ CameraInBounds(camera')
    /\ UNCHANGED isDragging
    /\ CamStep("keydown", key, Ratio(0, 1))

\* ---------------------------------------------------------------- AIMap.ts
\* AIMap.initialize() after `await this.engine.initialize(canvas)`: throws on
\* failure; otherwise sets the camera and runs renderer.initialize() up to
\* its await (or to its early `return false`).
MapInitResume ==
    /\ initPc \in {"engineFalse", "engineTrue", "engineThrow"}
    /\ IF initPc # "engineTrue"
       THEN /\ initPc' = "failed"
            /\ lastCall' = Call("AIMap.initialize", "", "throw")
            /\ UNCHANGED <<renderer, camera>>
       ELSE IF ~(engine.device /\ engine.context)
       THEN /\ initPc' = "rendererFalse"
            /\ camera' = CameraFromOptions(zoom, center)
            /\ lastCall' = Call("GlobeRenderer.initialize", "", "false")
            /\ UNCHANGED renderer
       ELSE /\ initPc' = "awaitTextures"
            /\ camera' = CameraFromOptions(zoom, center)
            /\ renderer' = renderer \cup RendererBeforeAwait(showGridLines)
            /\ lastCall' = Call("GlobeRenderer.initialize", "", "pending")
    /\ destroyCalls' = NoDestroys
    /\ UNCHANGED <<lmVars, auxVars, gpuEnv, engine, frameScheduled, frameLog,
                   showGridLines, stopCalled, destroyCalled, zoom, center,
                   autoRotate, isDragging>>

\* GlobeRenderer.initialize() after its await, on the device and context it
\* captured before: the uniform buffer is created, then the bind group reads
\* this.earthTexture!, which throws if destroy() has nulled it meanwhile.
RendererInitResume ==
    /\ initPc = "awaitTextures"
    /\ IF "earthTexture" \notin renderer \/ "normalTexture" \notin renderer
       THEN /\ renderer' = renderer \cup {"uniformBuffer"}
            /\ initPc' = "rendererThrow"
            /\ lastCall' = Call("GlobeRenderer.initialize", "", "throw")
       ELSE /\ renderer' = renderer \cup RendererAfterAwait(showGridLines)
            /\ initPc' = "rendererTrue"
            /\ lastCall' = Call("GlobeRenderer.initialize", "", "true")
    /\ destroyCalls' = NoDestroys
    /\ UNCHANGED <<lmVars, auxVars, gpuEnv, engine, frameScheduled, frameLog,
                   showGridLines, stopCalled, destroyCalled, camVars>>

\* AIMap.initialize() after `await this.renderer.initialize()`: the result
\* is not looked at; startRenderLoop() schedules the first frame.
MapInitFinish ==
    /\ initPc \in {"rendererTrue", "rendererFalse", "rendererThrow"}
    /\ IF initPc = "rendererThrow"
       THEN /\ initPc' = "failed"
            /\ lastCall' = Call("AIMap.initialize", "", "throw")
            /\ UNCHANGED frameScheduled
       ELSE /\ initPc' = "done"
            /\ frameScheduled' = TRUE
            /\ lastCall' = Call("AIMap.initialize", "", "void")
    /\ destroyCalls' = NoDestroys
    /\ UNCHANGED <<lmVars, auxVars, gpuEnv, engine, renderer, frameLog,
                   showGridLines, stopCalled, destroyCalled, camVars>>

\* renderScene(): the globe renderer only.
RenderScene == RenderEvents

\* One run of the renderFrame callback.
FrameTick ==
    /\ frameScheduled
    /\ camera' = IF autoRotate THEN RotateGlobeY(camera, Ang(0, 1)) ELSE camera
    /\ CameraInBounds(camera')
    /\ frameLog' = LayerEvents("update", layerOrder) \o RenderScene
    /\ renderer' = RenderHandles
    /\ frameScheduled' = TRUE
    /\ lastCall' = Call("frame", "", "void")
    /\ destroyCalls' = NoDestroys
    /\ UNCHANGED <<lmVars, auxVars, gpuEnv, initPc, engine, showGridLines, stopCalled,
                   destroyCalled, zoom, center, autoRotate, isDragging>>

Stop ==
    /\ frameScheduled' = FALSE
    /\ stopCalled' = TRUE
    /\ lastCall' = Call("stop", "", "void")
    /\ destroyCalls' = NoDestroys
    /\ UNCHANGED <<lmVars, auxVars, gpuEnv, initPc, engine, renderer, frameLog,
                   showGridLines, destroyCalled, camVars>>

\* destroy(): stop(), layerManager.destroy(), renderer.destroy(),
\* engine.destroy().
Destroy ==
    /\ frameScheduled' = FALSE
    /\ destroyCalls' = ClearDestroys
    /\ layers' = <<>>
    /\ layerOrder' = <<>>
    /\ renderer' = RendererDestroy
    /\ engine' = EngineDestroy
    /\ destroyCalled' = TRUE
    /\ lastCall' = Call("destroy", "", "void")
    /\ UNCHANGED <<pending, auxVars, gpuEnv, initPc, frameLog, showGridLines, stopCalled,
                   camVars>>

\* addPointLayer(id, name, points): a new PointLayer (zIndex 0) is handed to
\* LayerManager.addLayer.
AddPointLayer(id) == AddLayerCall(id, 0)

\* ------------------------------------------------------ GeoDataLoader.ts
\* lonLatToCartesian and cartesianToLonLat in exact arithmetic.  Angles are
\* taken from the grid q * 90 + a * alpha degrees, alpha = asin(3/5) in
\* degrees (about 36.87), whose sines and cosines are rational.
Plus(x, y) == IF x.nan \/ y.nan THEN NaN ELSE Ratio(x.n * y.d + y.n * x.d, x.d * y.d)
Minus(x, y) == IF x.nan \/ y.nan THEN NaN ELSE Ratio(x.n * y.d - y.n * x.d, x.d * y.d)

\* x / y for any sign of y; 0 / 0 is NaN.  A non-zero x over 0 (an infinity)
\* has no value here.
Div(x, y) ==
    IF x.nan \/ y.nan THEN NaN
    ELSE IF y.n = 0 THEN (IF x.n = 0 THEN NaN ELSE CHOOSE v \in {} : TRUE)
    ELSE IF y.n < 0 THEN Ratio((0 - x.n) * y.d, x.d * (0 - y.n))
    ELSE Ratio(x.n * y.d, x.d * y.n)

\* Math.sqrt of a ratio of perfect squares.
ISqrt(n) == CHOOSE k \in 0..n : k * k = n
MathSqrt(x) == IF x.nan THEN NaN ELSE Ratio(ISqrt(x.n), ISqrt(x.d))

Angle(unit, q, a) == [unit |-> unit, nan |-> FALSE, q |-> q, a |-> a]
NaNAngle(unit) == [unit |-> unit, nan |-> TRUE, q |-> 0, a |-> 0]

\* Sign of q * 90 + a * alpha, and the order of two grid angles
\* (alpha is between 36 and 37 degrees and |a| <= 1).
AngleLess(g, h) == (g.q - h.q) * 900 + (g.a - h.a) * 369 < 0

\* degrees * Math.PI / 180 and radians * 180 / Math.PI.
ToRadians(g) == [g EXCEPT !.unit = "rad"]
ToDegrees(g) == [g EXCEPT !.unit = "deg"]

\* Math.cos and Math.sin of an angle in radians: those of a * alpha,
\* turned by q quarter turns.
CosSin(g) ==
    LET c == IF g.a = 0 THEN Ratio(1, 1) ELSE Ratio(4, 5)
        s == Ratio(3 * g.a, 5)
        m == Ratio(0 - 1, 1)
    IN CASE g.q % 4 = 0 -> <<c, s>>
         [] g.q % 4 = 1 -> <<Times(m, s), c>>
         [] g.q % 4 = 2 -> <<Times(m, c), Times(m, s)>>
         [] g.q % 4 = 3 -> <<s, Times(m, c)>>
MathCos(g) == IF g.nan THEN NaN ELSE CosSin(g)[1]
MathSin(g) == IF g.nan THEN NaN ELSE CosSin(g)[2]

GridAngles(unit) == {Angle(unit, q, a) : q \in (0 - 2)..2, a \in (0 - 1)..1}

\* Math.atan2(z, x): the angle in (-pi, pi] of the direction (x, z);
\* atan2(0, 0) is 0.
MathAtan2(z, x) ==
    IF z.nan \/ x.nan THEN NaNAngle("rad")
    ELSE IF z.n = 0 /\ x.n = 0 THEN Angle("rad", 0, 0)
    ELSE CHOOSE g \in GridAngles("rad") :
            /\ AngleLess(Angle("rad", 0 - 2, 0), g)
            /\ ~AngleLess(Angle("rad", 2, 0), g)
            /\ Times(x, MathSin(g)) = Times(z, MathCos(g))
            /\ ~Leq(Plus(Times(x, MathCos(g)), Times(z, MathSin(g))), Ratio(0, 1))

\* Math.asin(v): the angle in [-pi/2, pi/2] whose sine is v; NaN for NaN.
MathAsin(v) ==
    IF v.nan THEN NaNAngle("rad")
    ELSE CHOOSE g \in GridAngles("rad") :
            /\ ~AngleLess(g, Angle("rad", 0 - 1, 0))
            /\ ~AngleLess(Angle("rad", 1, 0), g)
            /\ MathSin(g) = v

\* r = radius + altitude * 0.001.
ShellRadius(altitude, radius) == Plus(radius, Times(altitude, Ratio(1, 1000)))

LonLatToCartesian(longitude, latitude, altitude, radius) ==
    LET lon == ToRadians(longitude)
        lat == ToRadians(latitude)
        r == ShellRadius(altitude, radius)
    IN <<Times(Times(r, MathCos(lat)), MathCos(lon)),
         Times(r, MathSin(lat)),
         Times(Times(r, MathCos(lat)), MathSin(lon))>>

CartesianToLonLat(x, y, z) ==
    LET radius == MathSqrt(Plus(Plus(Times(x, x), Times(y, y)), Times(z, z)))
    IN <<ToDegrees(MathAtan2(z, x)),
         ToDegrees(MathAsin(Div(y, radius))),
         Times(Minus(radius, Ratio(1, 1)), Ratio(1000, 1))>>

\* The camera position as updateCameraFromOptions computes it, for angles
\* that are whole quarter turns.
CameraPosition(cam) ==
    LET phi == CosSin(Angle("rad", cam.polar.deg \div 90, 0))
        theta == CosSin(Angle("rad", cam.yaw.deg \div 90, 0))
    IN <<Times(Times(Times(Ratio(0 - 1, 1), cam.dist), phi[2]), theta[1]),
         Times(cam.dist, phi[1]),
         Times(Times(cam.dist, phi[2]), theta[2])>>

\* The arguments: longitudes in (-180, 180), latitudes in (-90, 90),
\* altitudes in steps of 500 on both sides of 0, base radii 1/2, 1 and 2.
Longitudes ==
    {g \in GridAngles("deg") :
        AngleLess(Angle("deg", 0 - 2, 0), g) /\ AngleLess(g, Angle("deg", 2, 0))}
Latitudes ==
    {g \in GridAngles("deg") :
        AngleLess(Angle("deg", 0 - 1, 0), g) /\ AngleLess(g, Angle("deg", 1, 0))}
Altitudes == {Ratio(500 * k, 1) : k \in (0 - MaxAltSteps)..MaxAltSteps}
Radii == {Ratio(1, 2), Ratio(1, 1), Ratio(2, 1)}

NoGeo == [lon |-> Angle("deg", 0, 0), lat |-> Angle("deg", 0, 0),
          alt |-> Ratio(0, 1), radius |-> Ratio(1, 1), xyz |-> <<>>, out |-> <<>>]

GeoInputs ==
    {[NoGeo EXCEPT !.lon = lon, !.lat = lat, !.alt = alt, !.radius = radius] :
        lon \in Longitudes, lat \in Latitudes, alt \in Altitudes, radius \in Radii}

GeoToCartesian ==
    /\ geo.xyz = <<>>
    /\ UNCHANGED <<texVars, globeVars, extVars>>
    /\ geo' = [geo EXCEPT !.xyz = LonLatToCartesian(geo.lon, geo.lat, geo.alt, geo.radius)]
    /\ lastCall' = Call("lonLatToCartesian", "", "value")
    /\ destroyCalls' = NoDestroys
    /\ UNCHANGED <<lmVars, gpuEnv, initPc, engine, renderer, frameScheduled,
                   frameLog, showGridLines, stopCalled, destroyCalled, camVars>>

GeoToLonLat ==
    /\ UNCHANGED <<texVars, globeVars, extVars>>
    /\ geo.xyz # <<>>
    /\ geo.out = <<>>
    /\ geo' = [geo EXCEPT !.out = CartesianToLonLat(geo.xyz[1], geo.xyz[2], geo.xyz[3])]
    /\ lastCall' = Call("cartesianToLonLat", "", "value")
    /\ destroyCalls' = NoDestroys
    /\ UNCHANGED <<lmVars, gpuEnv, initPc, engine, renderer, frameScheduled,
                   frameLog, showGridLines, stopCalled, destroyCalled, camVars>>

\* --------------------------------------------- TextureManager (LayerManager.ts)
\* Cache keys: the two built-in textures and the URLs callers load.
Urls == {"a.png", "b.png"}
TextureKeys == {"earth-default", "normal-default"} \cup Urls

NoTextures == [k \in TextureKeys |-> 0]

\* device.createTexture followed by textureCache.set(key, texture).
CreateAndCache(key) ==
    /\ Len(gpuTextures) < MaxTextures
    /\ gpuTextures' = Append(gpuTextures, [key |-> key, destroyed |-> 0])
    /\ textureCache' = [textureCache EXCEPT ![key] = Len(gpuTextures) + 1]

TextureStep(op, key, ret) ==
    /\ lastCall' = Call(op, key, ret)
    /\ destroyCalls' = NoDestroys
    /\ UNCHANGED <<lmVars, geo, extVars, globeVars, gpuEnv, initPc, engine, renderer,
                   frameScheduled, frameLog, showGridLines, stopCalled,
                   destroyCalled, camVars>>

CreateDefaultEarthTexture ==
    /\ CreateAndCache("earth-default")
    /\ UNCHANGED loading
    /\ TextureStep("createDefaultEarthTexture", "earth-default", "texture")

CreateDefaultNormalTexture ==
    /\ CreateAndCache("normal-default")
    /\ UNCHANGED loading
    /\ TextureStep("createDefaultNormalTexture", "normal-default", "texture")

\* loadTextureFromURL up to `await fetch(url)`: a cached URL is answered at
\* once, any other call is suspended.
LoadTextureFromURL(url) ==
    /\ IF textureCache[url] # 0
       THEN /\ UNCHANGED loading
            /\ TextureStep("loadTextureFromURL", url, "texture")
       ELSE /\ BagCardinality(loading) < MaxLoading
            /\ loading' = loading (+) SetToBag({url})
            /\ TextureStep("loadTextureFromURL", url, "pending")
    /\ UNCHANGED <<textureCache, gpuTextures>>

\* loadTextureFromURL after its awaits: the image arrived and a texture is
\* created and cached, or something threw and the catch returns null.
LoadTextureResume(url, loaded) ==
    /\ BagIn(url, loading)
    /\ loading' = loading (-) SetToBag({url})
    /\ IF loaded
       THEN /\ CreateAndCache(url)
            /\ TextureStep("loadTextureFromURL.resume", url, "texture")
       ELSE /\ UNCHANGED <<textureCache, gpuTextures>>
            /\ TextureStep("loadTextureFromURL.resume", url, "null")

\* The textures destroy() reaches: the values of textureCache.
Cached(i) == \E k \in TextureKeys : textureCache[k] = i

TextureManagerDestroy ==
    /\ gpuTextures' = [i \in DOMAIN gpuTextures |->
                          IF Cached(i)
                          THEN [gpuTextures[i] EXCEPT !.destroyed = @ + 1]
                          ELSE gpuTextures[i]]
    /\ textureCache' = NoTextures
    /\ UNCHANGED loading
    /\ TextureStep("TextureManager.destroy", "", "void")

\* ------------------------------------ GlobeRenderer: GPU objects it owns
\* The fields that hold an object with a destroy() method of the renderer's
\* own making (the two globe textures belong to its TextureManager).
HandleFields == {"vertexBuffer", "indexBuffer", "uniformBuffer",
                 "gridVertexBuffer", "gridIndexBuffer", "depthTexture"}

NoHandles == [f \in HandleFields |-> 0]

\* The two grid pipeline descriptors, and no pipeline.
NoPipeline == [created |-> FALSE, depthWriteEnabled |-> FALSE, blend |-> FALSE]
GridPipeline == [created |-> TRUE, depthWriteEnabled |-> TRUE, blend |-> TRUE]
EnhancedGridPipeline == [created |-> TRUE, depthWriteEnabled |-> FALSE, blend |-> TRUE]

\* The canvas sizes, and the size field of an object that is not a texture
\* (a buffer's byte length is not modelled).
CanvasSizes == (1..MaxCanvas) \X (1..MaxCanvas)
NoSize == <<0, 0>>

\* this.f = device.createBuffer / createTexture for each f of fs in turn:
\* the field is overwritten, whatever it held.
Created(st, fs) ==
    [bufs |-> st.bufs \o [i \in 1..Len(fs) |->
                             [field |-> fs[i], destroyed |-> 0,
                              size |-> IF fs[i] = "depthTexture" THEN canvas
                                       ELSE NoSize]],
     hs |-> [f \in HandleFields |->
                IF \E i \in 1..Len(fs) : fs[i] = f
                THEN Len(st.bufs) + (CHOOSE i \in 1..Len(fs) : fs[i] = f)
                ELSE st.hs[f]]]

\* if (this.f) { this.f.destroy(); this.f = null; } for each f of fields.
Destroyed(st, fields) ==
    [bufs |-> [i \in DOMAIN st.bufs |->
                  IF \E f \in fields : st.hs[f] = i
                  THEN [st.bufs[i] EXCEPT !.destroyed = @ + 1]
                  ELSE st.bufs[i]],
     hs |-> [f \in HandleFields |-> IF f \in fields THEN 0 ELSE st.hs[f]]]

\* updateDepthTexture: nothing if the canvas still has the size the depth
\* texture was made for; else the old one is destroyed and a new one made.
\* An updateDepthTexture that compares the width only.
DepthUpToDateWidthOnly(st) == canvas[1] = canvasWidth[1] /\ st.hs["depthTexture"] # 0

DepthUpToDate(st) == canvas = canvasWidth /\ st.hs["depthTexture"] # 0

UpdateDepthTexture(st) ==
    IF DepthUpToDate(st) THEN st
    ELSE Created(Destroyed(st, {"depthTexture"}), <<"depthTexture">>)

GpuState == [bufs |-> gpuBuffers, hs |-> handles]

GlobeStep(op, ret) ==
    /\ lastCall' = Call(op, "", ret)
    /\ destroyCalls' = NoDestroys
    /\ UNCHANGED <<lmVars, geo, extVars, loading, gpuEnv, initPc, engine, frameScheduled,
                   stopCalled, destroyCalled, camVars>>

\* The canvas is given another size.
CanvasResize(size) ==
    /\ size # canvas
    /\ canvas' = size
    /\ UNCHANGED <<texVars, handles, gpuBuffers, gridPipeline, canvasWidth, globePc,
                   initCalls, gridSwitches, uniformBindGroup, renderer, frameLog,
                   showGridLines>>
    /\ GlobeStep("resize", "void")

\* initialize() up to `await this.createTextures()`: a new TextureManager,
\* the sphere buffers, the grid buffers if showGridLines, the two textures.
GlobeInitialize ==
    /\ globePc = "idle"
    /\ initCalls < MaxInits
    /\ initCalls' = initCalls + 1
    /\ UNCHANGED gridSwitches
    /\ IF ~(engine.device /\ engine.context)
       THEN /\ UNCHANGED <<texVars, handles, gpuBuffers, globePc, renderer>>
            /\ GlobeStep("GlobeRenderer.initialize", "false")
       ELSE LET fs == <<"vertexBuffer", "indexBuffer">>
                         \o (IF showGridLines
                             THEN <<"gridVertexBuffer", "gridIndexBuffer">>
                             ELSE <<>>)
                st == Created(GpuState, fs)
            IN /\ Len(st.bufs) <= MaxBuffers
               /\ Len(gpuTextures) + 2 <= MaxTextures
               /\ gpuBuffers' = st.bufs
               /\ handles' = st.hs
               /\ gpuTextures' = gpuTextures
                                   \o <<[key |-> "earth-default", destroyed |-> 0],
                                        [key |-> "normal-default", destroyed |-> 0]>>
               /\ textureCache' = [NoTextures EXCEPT
                                      !["earth-default"] = Len(gpuTextures) + 1,
                                      !["normal-default"] = Len(gpuTextures) + 2]
               /\ renderer' = renderer \cup RendererBeforeAwait(showGridLines)
               /\ globePc' = "awaitTextures"
               /\ GlobeStep("GlobeRenderer.initialize", "pending")
    /\ UNCHANGED <<gridPipeline, canvas, canvasWidth, uniformBindGroup, frameLog,
                   showGridLines>>

\* initialize() from the await on: the uniform buffer, then the bind group
\* (which throws on a texture field that is null by now), the pipelines and
\* the depth texture.
GlobeInitializeResume ==
    /\ globePc = "awaitTextures"
    /\ globePc' = "idle"
    /\ IF "earthTexture" \notin renderer \/ "normalTexture" \notin renderer
       THEN LET st == Created(GpuState, <<"uniformBuffer">>)
            IN /\ Len(st.bufs) <= MaxBuffers
               /\ gpuBuffers' = st.bufs
               /\ handles' = st.hs
               /\ renderer' = renderer \cup {"uniformBuffer"}
               /\ UNCHANGED <<gridPipeline, canvasWidth, uniformBindGroup>>
               /\ GlobeStep("GlobeRenderer.initialize.resume", "throw")
       ELSE LET st == UpdateDepthTexture(Created(GpuState, <<"uniformBuffer">>))
            IN /\ Len(st.bufs) <= MaxBuffers
               /\ gpuBuffers' = st.bufs
               /\ handles' = st.hs
               /\ renderer' = renderer \cup RendererAfterAwait(showGridLines)
               /\ gridPipeline' = IF showGridLines THEN EnhancedGridPipeline
                                  ELSE gridPipeline
               /\ canvasWidth' = canvas
               /\ uniformBindGroup' = "globeLayout"
               /\ GlobeStep("GlobeRenderer.initialize.resume", "true")
    /\ UNCHANGED <<texVars, canvas, initCalls, gridSwitches, frameLog, showGridLines>>

\* The grid part of render(): drawn when showGridLines and the grid pipeline
\* and both grid buffers are there, with the pipeline that is set.
GridEvents ==
    IF /\ showGridLines
       /\ gridPipeline.created
       /\ handles["gridVertexBuffer"] # 0
       /\ handles["gridIndexBuffer"] # 0
    THEN <<<<"grid", IF gridPipeline.depthWriteEnabled THEN "depthWrite" ELSE "noDepthWrite">>>>
    ELSE <<>>

\* GlobeRenderer.render().
GlobeRender ==
    /\ IF RenderReady
       THEN LET st == UpdateDepthTexture(GpuState)
            IN /\ Len(st.bufs) <= MaxBuffers
               /\ gpuBuffers' = st.bufs
               /\ handles' = st.hs
               /\ canvasWidth' = canvas
               /\ frameLog' = <<<<"globe", "">>>> \o GridEvents \o <<<<"submit", "">>>>
       ELSE /\ UNCHANGED <<handles, gpuBuffers, canvasWidth>>
            /\ frameLog' = <<>>
    /\ renderer' = RenderHandles
    /\ UNCHANGED <<texVars, gridPipeline, canvas, globePc, initCalls, gridSwitches,
                   uniformBindGroup, showGridLines>>
    /\ GlobeStep("GlobeRenderer.render", "void")

\* A setGridLinesVisible that makes the grid geometry whenever the grid is
\* switched on.
GridGeometryAlwaysMissing == TRUE

\* setGridLinesVisible: `if (!this.gridVertexBuffer)`, the test that guards
\* createGridGeometry.
GridGeometryMissing == handles["gridVertexBuffer"] = 0

\* setGridLinesVisible(visible): nothing if the flag already has that value;
\* on switching on, the grid buffers and the grid pipeline are created if
\* their fields are null, the pipeline by createGridPipeline, which also
\* replaces the bind group when there is a uniform buffer.
GlobeSetGridLinesVisible(visible) ==
    /\ IF showGridLines = visible
       THEN UNCHANGED <<showGridLines, handles, gpuBuffers, gridPipeline, renderer,
                        uniformBindGroup>>
       ELSE /\ showGridLines' = visible
            /\ IF visible /\ engine.device /\ engine.context
               THEN LET st == IF GridGeometryMissing
                              THEN Created(GpuState, <<"gridVertexBuffer", "gridIndexBuffer">>)
                              ELSE GpuState
                    IN /\ Len(st.bufs) <= MaxBuffers
                       /\ gpuBuffers' = st.bufs
                       /\ handles' = st.hs
                       /\ gridPipeline' = IF gridPipeline.created THEN gridPipeline
                                          ELSE GridPipeline
                       /\ renderer' = renderer \cup GridBuffers \cup {"gridPipeline"}
                                        \cup (IF ~gridPipeline.created /\ handles["uniformBuffer"] # 0
                                              THEN {"uniformBindGroup"} ELSE {})
                       /\ uniformBindGroup' = IF ~gridPipeline.created /\ handles["uniformBuffer"] # 0
                                              THEN "gridLayout"
                                              ELSE uniformBindGroup
               ELSE UNCHANGED <<handles, gpuBuffers, gridPipeline, renderer, uniformBindGroup>>
    /\ gridSwitches' = IF showGridLines # visible /\ gridSwitches < MaxSwitches
                       THEN gridSwitches + 1
                       ELSE gridSwitches
    /\ UNCHANGED <<texVars, canvas, canvasWidth, globePc, initCalls, frameLog>>
    /\ GlobeStep("GlobeRenderer.setGridLinesVisible", "void")

\* GlobeRenderer.destroy(): nothing without a device; else every buffer and
\* the depth texture held is destroyed, the TextureManager (if any) destroys
\* the textures in its cache, and every field is nulled.
GlobeDestroy ==
    /\ IF ~engine.device
       THEN UNCHANGED <<texVars, handles, gpuBuffers, gridPipeline, renderer,
                        uniformBindGroup>>
       ELSE LET st == Destroyed(GpuState, HandleFields)
            IN /\ gpuBuffers' = st.bufs
               /\ handles' = st.hs
               /\ IF "textureManager" \in renderer
                  THEN /\ gpuTextures' = [i \in DOMAIN gpuTextures |->
                                            IF Cached(i)
                                            THEN [gpuTextures[i] EXCEPT !.destroyed = @ + 1]
                                            ELSE gpuTextures[i]]
                       /\ textureCache' = NoTextures
                  ELSE UNCHANGED <<textureCache, gpuTextures>>
               /\ gridPipeline' = NoPipeline
               /\ uniformBindGroup' = "null"
               /\ renderer' = RendererDestroy
    /\ UNCHANGED <<canvas, canvasWidth, globePc, initCalls, gridSwitches, frameLog,
                   showGridLines>>
    /\ GlobeStep("GlobeRenderer.destroy", "void")

\* ------------------------------------ GlobeRenderer: sphere geometry
\* No generation under way.
NoSphere == [variant |-> "none", segments |-> 0, pc |-> "idle", y |-> 0, x |-> 0,
             vertices |-> 0, floats |-> 0, indices |-> <<>>]

SphereVariants == {"createSphereGeometry", "createEnhancedSphereGeometry"}

\* The numbers pushed per vertex: position, or position, normal and uv.
FloatsPerVertex(variant) == IF variant = "createSphereGeometry" THEN 3 ELSE 8

\* createSphereGeometry, the body of the index loops: the two triangles of
\* the quad at row y, column x.
SphereTriangles(y, x, segments) ==
    LET i1 == y * (segments + 1) + x
        i2 == i1 + 1
        i3 == i1 + (segments + 1)
        i4 == i3 + 1
    IN <<i1, i3, i2>> \o <<i2, i3, i4>>

\* An enhanced generator that keeps the triangles at the poles.
EnhancedSphereTrianglesAtPoles(y, x, segments) == SphereTriangles(y, x, segments)

\* createEnhancedSphereGeometry, the body of the index loops: the first
\* triangle is left out in the top row, the second in the bottom row.
EnhancedSphereTriangles(y, x, segments) ==
    LET i1 == y * (segments + 1) + x
        i2 == i1 + 1
        i3 == i1 + (segments + 1)
        i4 == i3 + 1
    IN (IF y # 0 THEN <<i1, i3, i2>> ELSE <<>>)
       \o (IF y # segments - 1 THEN <<i2, i3, i4>> ELSE <<>>)

SphereStep(op, ret) ==
    /\ lastCall' = Call(op, "", ret)
    /\ destroyCalls' = NoDestroys
    /\ UNCHANGED <<lmVars, geo, texVars, globeVars, pointVars, gpuEnv, initPc, engine,
                   renderer, frameScheduled, frameLog, showGridLines, stopCalled,
                   destroyCalled, camVars>>

\* A generator is called with a segment count of at least 1: both arrays
\* empty, the vertex loops at y = 0, x = 0.
CreateSphereGeometry(variant, segments) ==
    /\ sphere.pc \in {"idle", "done"}
    /\ sphere' = [NoSphere EXCEPT !.variant = variant, !.segments = segments,
                                  !.pc = "vertices"]
    /\ SphereStep(variant, "pending")

\* One pass of the inner vertex loop: a vertex is pushed (y and x run from 0
\* to segments inclusive); after the last one the index loops start.
SphereVertexStep ==
    /\ sphere.pc = "vertices"
    /\ LET pushed == [sphere EXCEPT !.vertices = @ + 1,
                                    !.floats = @ + FloatsPerVertex(sphere.variant)]
       IN sphere' = IF sphere.x < sphere.segments
                    THEN [pushed EXCEPT !.x = @ + 1]
                    ELSE IF sphere.y < sphere.segments
                    THEN [pushed EXCEPT !.y = @ + 1, !.x = 0]
                    ELSE [pushed EXCEPT !.pc = "indices", !.y = 0, !.x = 0]
    /\ SphereStep(sphere.variant, "pending")

\* One pass of the inner index loop (y and x run from 0 to segments - 1);
\* after the last one the buffers are created and indexCount is set.
SphereIndexStep ==
    /\ sphere.pc = "indices"
    /\ LET pushed == [sphere EXCEPT !.indices = @ \o
                         (IF sphere.variant = "createSphereGeometry"
                          THEN SphereTriangles(sphere.y, sphere.x, sphere.segments)
                          ELSE EnhancedSphereTriangles(sphere.y, sphere.x, sphere.segments))]
           last == sphere.y = sphere.segments - 1 /\ sphere.x = sphere.segments - 1
       IN /\ sphere' = IF sphere.x < sphere.segments - 1
                       THEN [pushed EXCEPT !.x = @ + 1]
                       ELSE IF sphere.y < sphere.segments - 1
                       THEN [pushed EXCEPT !.y = @ + 1, !.x = 0]
                       ELSE [pushed EXCEPT !.pc = "done"]
          /\ SphereStep(sphere.variant, IF last THEN "void" ELSE "pending")

\* ------------------------------------------------------- PointLayer.ts
DefaultColor == <<Ratio(1, 1), Ratio(0, 1), Ratio(0, 1), Ratio(1, 1)>>
DefaultSize == Ratio(5, 1)

\* The records callers add: one at longitude 0 without a size of its own
\* (size 0 stands for undefined as well), one at longitude 90 with size 2.
PointInputs ==
    {[longitude |-> Angle("deg", 0, 0), latitude |-> Angle("deg", 0, 0),
      altitude |-> Ratio(0, 1), size |-> Ratio(0, 1)],
     [longitude |-> Angle("deg", 1, 0), latitude |-> Angle("deg", 0, 0),
      altitude |-> Ratio(0, 1), size |-> Ratio(2, 1)]}

\* The arrays addPoints is given.
PointArrays == UNION {[1..k -> PointInputs] : k \in 0..MaxPoints}

\* updateGeometry, the loop body: position (radius 1 + altitude * 0.001),
\* colour (the default one: the records carry none) and size
\* (point.size || this.defaultSize), 8 numbers.
PointVertex(point) ==
    LonLatToCartesian(point.longitude, point.latitude, point.altitude, Ratio(1, 1))
        \o DefaultColor
        \o <<IF point.size = Ratio(0, 1) THEN DefaultSize ELSE point.size>>

PointVertices(points) == [i \in 1..Len(points) |-> PointVertex(points[i])]

\* A PointLayer as constructed (indexBuffer is never assigned).
NoPointLayer ==
    [points |-> <<>>, vertexBuffer |-> 0, uniformBuffer |-> 0, pipeline |-> FALSE,
     bindGroup |-> FALSE, vertexCount |-> 0, visible |-> TRUE, pc |-> "idle"]

PointIdle ==
    /\ pointLayer = NoPointLayer
    /\ pointBuffers = <<>>
    /\ pointDraws = <<>>

PointStep(op, ret) ==
    /\ lastCall' = Call(op, "", ret)
    /\ destroyCalls' = NoDestroys
    /\ UNCHANGED <<lmVars, geo, texVars, globeVars, sphere, gpuEnv, initPc, renderer,
                   frameScheduled, frameLog, showGridLines, stopCalled, destroyCalled,
                   camVars>>

AddPoint(point) ==
    /\ Len(pointLayer.points) < MaxPoints
    /\ pointLayer' = [pointLayer EXCEPT !.points = Append(@, point)]
    /\ UNCHANGED <<pointBuffers, pointDraws, engine>>
    /\ PointStep("addPoint", "void")

AddPoints(points) ==
    /\ Len(pointLayer.points) + Len(points) <= MaxPoints
    /\ pointLayer' = [pointLayer EXCEPT !.points = @ \o points]
    /\ UNCHANGED <<pointBuffers, pointDraws, engine>>
    /\ PointStep("addPoints", "void")

ClearPoints ==
    /\ pointLayer' = [pointLayer EXCEPT !.points = <<>>]
    /\ UNCHANGED <<pointBuffers, pointDraws, engine>>
    /\ PointStep("clearPoints", "void")

PointSetVisible(visible) ==
    /\ pointLayer' = [pointLayer EXCEPT !.visible = visible]
    /\ UNCHANGED <<pointBuffers, pointDraws, engine>>
    /\ PointStep("PointLayer.setVisible", "void")

\* initialize() up to `await this.createShaders(device)`: false without a
\* device; else createShaders makes the bind group (from this.uniformBuffer,
\* null so far on a first call) and then the pipeline, or throws before it
\* has assigned either.
PointInitialize ==
    /\ pointLayer.pc = "idle"
    /\ \E outcome \in InitializeOutcomes(engine.device) :
         /\ pointLayer' = IF outcome = "true"
                          THEN [pointLayer EXCEPT !.bindGroup = TRUE, !.pipeline = TRUE,
                                                  !.pc = "awaitShaders"]
                          ELSE pointLayer
         /\ PointStep("PointLayer.initialize",
                      IF outcome = "true" THEN "pending" ELSE outcome)
    /\ UNCHANGED <<pointBuffers, pointDraws, engine>>

\* initialize() from the await on: the uniform buffer is created on the
\* device read before the await and assigned, whatever the field held.
PointInitializeResume ==
    /\ pointLayer.pc = "awaitShaders"
    /\ Len(pointBuffers) < MaxPointBuffers
    /\ pointBuffers' = Append(pointBuffers,
                              [field |-> "uniformBuffer", destroyed |-> 0, vertices |-> <<>>])
    /\ pointLayer' = [pointLayer EXCEPT !.uniformBuffer = Len(pointBuffers) + 1,
                                        !.pc = "idle"]
    /\ UNCHANGED <<pointDraws, engine>>
    /\ PointStep("PointLayer.initialize.resume", "true")

\* buffer.destroy() on the buffer at place i (none if i = 0): its content
\* is gone.
PointBufferDestroyed(bufs, i) ==
    [j \in DOMAIN bufs |->
        IF j = i THEN [bufs[j] EXCEPT !.destroyed = @ + 1, !.vertices = <<>>]
        ELSE bufs[j]]

\* render(renderPass): nothing when invisible, without points, pipeline or
\* bind group; else updateGeometry (which returns without a device, and
\* otherwise destroys the vertex buffer held and makes one from the points),
\* updateUniforms, and, if there is a vertex buffer, the draw.
PointRender ==
    /\ IF \/ ~pointLayer.visible
          \/ pointLayer.points = <<>>
          \/ ~pointLayer.pipeline
          \/ ~pointLayer.bindGroup
       THEN /\ pointDraws' = <<>>
            /\ UNCHANGED <<pointLayer, pointBuffers>>
       ELSE /\ IF engine.device
               THEN /\ Len(pointBuffers) < MaxPointBuffers
                    /\ pointBuffers' =
                         Append(PointBufferDestroyed(pointBuffers, pointLayer.vertexBuffer),
                                [field |-> "vertexBuffer", destroyed |-> 0,
                                 vertices |-> PointVertices(pointLayer.points)])
                    /\ pointLayer' = [pointLayer EXCEPT
                                         !.vertexBuffer = Len(pointBuffers) + 1,
                                         !.vertexCount = Len(pointLayer.points)]
               ELSE UNCHANGED <<pointLayer, pointBuffers>>
            /\ pointDraws' =
                 IF pointLayer'.vertexBuffer = 0 THEN <<>>
                 ELSE <<[buffer |-> pointLayer'.vertexBuffer,
                         count |-> pointLayer'.vertexCount]>>
    /\ UNCHANGED engine
    /\ PointStep("PointLayer.render", "void")

\* destroy(): the vertex and the uniform buffer held are destroyed and the
\* fields nulled, pipeline and bind group nulled, the points dropped.
PointDestroy ==
    /\ pointBuffers' = PointBufferDestroyed(
                           PointBufferDestroyed(pointBuffers, pointLayer.vertexBuffer),
                           pointLayer.uniformBuffer)
    /\ pointLayer' = [NoPointLayer EXCEPT !.visible = pointLayer.visible,
                                          !.pc = pointLayer.pc]
    /\ UNCHANGED <<pointDraws, engine>>
    /\ PointStep("PointLayer.destroy", "void")

\* Engine.destroy(): device, context and canvas are nulled; no layer and no
\* renderer is told.
EngineDestroyed ==
    /\ engine.device
    /\ engine' = EngineDestroy
    /\ UNCHANGED <<pointLayer, pointBuffers, pointDraws>>
    /\ PointStep("Engine.destroy", "void")

\* ------------------------------------------------------------------ Init
\* Nothing converted, no texture or pipeline built yet.
GlobeIdle ==
    /\ handles = NoHandles
    /\ gpuBuffers = <<>>
    /\ gridPipeline = NoPipeline
    /\ canvas = <<1, 1>>
    /\ canvasWidth = NoSize
    /\ globePc = "idle"
    /\ initCalls = 0
    /\ gridSwitches = 0
    /\ uniformBindGroup = "null"

AuxIdle ==
    /\ geo = NoGeo
    /\ sphere = NoSphere
    /\ PointIdle
    /\ textureCache = NoTextures
    /\ gpuTextures = <<>>
    /\ loading = EmptyBag
    /\ GlobeIdle

\* The state the constructor leaves: initialize() has run up to its first
\* await, i.e. Engine.initialize() has stored the canvas and either returned
\* false (no navigator.gpu) or is waiting for the adapter.
Init ==
    /\ layers = <<>>
    /\ layerOrder = <<>>
    /\ pending = EmptyBag
    /\ lastCall = Call("new", "", "void")
    /\ destroyCalls = NoDestroys
    /\ gpuEnv \in GpuEnvs
    /\ initPc = IF gpuEnv = "noGpu" THEN "engineFalse" ELSE "awaitAdapter"
    /\ engine = [device |-> FALSE, context |-> FALSE, canvas |-> TRUE]
    /\ renderer = {}
    /\ frameScheduled = FALSE
    /\ frameLog = <<>>
    /\ showGridLines \in BOOLEAN
    /\ stopCalled = FALSE
    /\ destroyCalled = FALSE
    /\ camera = DefaultCamera
    /\ zoom = Ratio(1, 1)
    /\ center = <<0, 0>>
    /\ autoRotate = FALSE
    /\ isDragging = FALSE
    /\ AuxIdle

\* The map once initialize() has run to its end, before the first frame,
\* constructed with options.center = c and the other options at their
\* defaults: up and running on a working host, or failed on a host without
\* navigator.gpu.
MapSettledWith(z, c) ==
    /\ layers = <<>>
    /\ layerOrder = <<>>
    /\ pending = EmptyBag
    /\ lastCall \in {Call("AIMap.initialize", "", "void"),
                     Call("AIMap.initialize", "", "throw")}
    /\ destroyCalls = NoDestroys
    /\ gpuEnv = IF lastCall.ret = "void" THEN "ok" ELSE "noGpu"
    /\ initPc = IF gpuEnv = "ok" THEN "done" ELSE "failed"
    /\ engine = [device |-> gpuEnv = "ok", context |-> gpuEnv = "ok", canvas |-> TRUE]
    /\ renderer = IF gpuEnv = "ok"
                  THEN RendererBeforeAwait(FALSE) \cup RendererAfterAwait(FALSE)
                  ELSE {}
    /\ frameScheduled = (gpuEnv = "ok")
    /\ frameLog = <<>>
    /\ showGridLines = FALSE
    /\ stopCalled = FALSE
    /\ destroyCalled = FALSE
    /\ zoom = z
    /\ center = c
    /\ camera = IF gpuEnv = "ok" THEN CameraFromOptions(zoom, center) ELSE DefaultCamera
    /\ autoRotate = FALSE
    /\ isDragging = FALSE

MapSettledAt(c) == MapSettledWith(Ratio(1, 1), c)

InitSettledAt(c) == MapSettledAt(c) /\ AuxIdle

InitSettled == InitSettledAt(<<0, 0>>)

\* ------------------------------------------------- LayerManager on its own
LayerNext ==
    \/ \E id \in Ids, z \in ZVals : AddLayerCall(id, z)
    \/ \E c \in BagToSet(pending) : AddLayerResume(c)
    \/ \E id \in Ids : RemoveLayer(id)
    \/ \E id \in Ids, z \in ZVals : SetLayerZIndex(id, z)
    \/ \E id \in Ids : MoveLayerToTop(id)
    \/ \E id \in Ids : MoveLayerToBottom(id)
    \/ Clear
    \/ LayerManagerDestroy

NextLayers == LayerNext

SpecLayers == InitSettled /\ [][NextLayers]_vars

\* ------------------------------------- LayerManager: presentation state
\* Visibility and the two iterations over the render order.
VisibleNext ==
    \/ \E id \in PointIds : AddPointLayer(id)
    \/ \E c \in BagToSet(pending) : AddLayerResume(c)
    \/ \E id \in PointIds : RemoveLayer(id)
    \/ \E id \in PointIds, v \in BOOLEAN : SetLayerVisible(id, v)
    \/ \E id \in PointIds : MoveLayerToTop(id)
    \/ Update
    \/ Render

SpecVisible == InitSettled /\ [][VisibleNext]_vars

\* The three setters.
SetterNext ==
    \/ \E id \in PointIds : AddPointLayer(id)
    \/ \E c \in BagToSet(pending) : AddLayerResume(c)
    \/ \E id \in PointIds : RemoveLayer(id)
    \/ \E id \in PointIds, v \in BOOLEAN : SetLayerVisible(id, v)
    \/ \E id \in PointIds, o \in OpacityInputs : SetLayerOpacity(id, o)
    \/ \E id \in PointIds, z \in ZVals : SetLayerZIndex(id, z)

SpecSetters == InitSettled /\ [][SetterNext]_vars

\* ------------------------------------------------------ camera control
\* A running map constructed with some options.center.
InitCamera == gpuEnv = "ok" /\ \E c \in CenterInputs : InitSettledAt(c)

\* Orbiting: drags, arrow keys, auto-rotation, setCenter.
OrbitNext ==
    \/ \E c \in CenterInputs : SetCenter(c)
    \/ \E b \in BOOLEAN : SetAutoRotate(b)
    \/ HandleMouseDown
    \/ \E d \in DragInputs : HandleMouseMove(d)
    \/ HandleMouseUp
    \/ \E key \in OrbitKeys : HandleKeyDown(key)
    \/ FrameTick

SpecOrbit == InitCamera /\ [][OrbitNext]_vars

\* Zooming: setZoom, wheel, +/- keys, with setCenter and a vertical step.
ZoomNext ==
    \/ \E z \in ZoomInputs : SetZoom(z)
    \/ \E c \in CenterInputs : SetCenter(c)
    \/ \E down \in BOOLEAN : HandleWheel(down)
    \/ \E key \in ZoomKeys : HandleKeyDown(key)

SpecZoom == InitCamera /\ [][ZoomNext]_vars

\* A running map constructed with some options.zoom and options.center.
InitOptions ==
    /\ gpuEnv = "ok"
    /\ \E z \in ZoomOptions, c \in CenterInputs : MapSettledWith(z, c)
    /\ AuxIdle

\* Zooming and orbiting together: a drag, auto-rotation.
ControlNext ==
    \/ \E z \in ZoomInputs : SetZoom(z)
    \/ \E c \in CenterInputs : SetCenter(c)
    \/ \E down \in BOOLEAN : HandleWheel(down)
    \/ \E key \in ZoomKeys : HandleKeyDown(key)
    \/ \E b \in BOOLEAN : SetAutoRotate(b)
    \/ HandleMouseDown
    \/ HandleMouseMove(<<1, 0>>)
    \/ HandleMouseUp
    \/ FrameTick

SpecControls == InitOptions /\ [][ControlNext]_vars

\* setCenter at the cardinal longitudes, at any zoom.
CenterNext ==
    \/ \E c \in CardinalCenters : SetCenter(c)
    \/ \E z \in ZoomInputs : SetZoom(z)
    \/ \E down \in BOOLEAN : HandleWheel(down)

SpecCenter == InitOptions /\ [][CenterNext]_vars

\* ------------------------------------------------ coordinate conversion
\* A pair of conversions on some arguments, beside a running map.
InitGeo ==
    /\ gpuEnv = "ok"
    /\ MapSettledAt(<<0, 0>>)
    /\ geo \in GeoInputs
    /\ textureCache = NoTextures
    /\ gpuTextures = <<>>
    /\ loading = EmptyBag
    /\ GlobeIdle
    /\ sphere = NoSphere
    /\ PointIdle

GeoNext ==
    \/ GeoToCartesian
    \/ GeoToLonLat

SpecGeo == InitGeo /\ [][GeoNext]_vars

\* ------------------------------------------------------- TextureManager
\* A TextureManager on the device of a running map.
InitTextures == gpuEnv = "ok" /\ InitSettled

TextureNext ==
    \/ CreateDefaultEarthTexture
    \/ CreateDefaultNormalTexture
    \/ \E url \in Urls : LoadTextureFromURL(url)
    \/ \E url \in Urls, loaded \in BOOLEAN : LoadTextureResume(url, loaded)
    \/ TextureManagerDestroy

SpecTextures == InitTextures /\ [][TextureNext]_vars

\* ------------------------------------------------------- GlobeRenderer
\* A GlobeRenderer constructed, with either value of showGridLines, on an
\* Engine that has its device and context; initialize() not yet called.
\* The renderer is driven directly: no frame loop is running and the map's
\* own variables stay as they are.
InitGlobe ==
    /\ layers = <<>>
    /\ layerOrder = <<>>
    /\ pending = EmptyBag
    /\ lastCall = Call("new GlobeRenderer", "", "void")
    /\ destroyCalls = NoDestroys
    /\ gpuEnv = "ok"
    /\ initPc = "awaitTextures"
    /\ engine = [device |-> TRUE, context |-> TRUE, canvas |-> TRUE]
    /\ renderer = {}
    /\ frameScheduled = FALSE
    /\ frameLog = <<>>
    /\ showGridLines \in BOOLEAN
    /\ stopCalled = FALSE
    /\ destroyCalled = FALSE
    /\ camera = DefaultCamera
    /\ zoom = Ratio(1, 1)
    /\ center = <<0, 0>>
    /\ autoRotate = FALSE
    /\ isDragging = FALSE
    /\ AuxIdle

GlobeNext ==
    \/ GlobeInitialize
    \/ GlobeInitializeResume
    \/ GlobeRender
    \/ \E size \in CanvasSizes : CanvasResize(size)
    \/ \E visible \in BOOLEAN : GlobeSetGridLinesVisible(visible)
    \/ GlobeDestroy

SpecGlobe == InitGlobe /\ [][GlobeNext]_vars

\* ------------------------------------------------------- sphere geometry
\* A renderer constructed without grid lines; the two generators are called
\* with segment counts from 1 to MaxSegments.
InitSphere == InitGlobe /\ ~showGridLines

SphereNext ==
    \/ \E variant \in SphereVariants, segments \in 1..MaxSegments :
         CreateSphereGeometry(variant, segments)
    \/ SphereVertexStep
    \/ SphereIndexStep

SpecSphere == InitSphere /\ [][SphereNext]_vars

\* --------------------------------------- render() of renderer and layer
\* A GlobeRenderer and a PointLayer on one Engine, each driven directly:
\* the renderer initialized once, rendered and destroyed, the layer
\* initialized, given points, rendered and destroyed, and the Engine
\* destroyed, in any order.
InitRender == InitGlobe /\ ~showGridLines

RenderNext ==
    \/ initCalls = 0 /\ GlobeInitialize
    \/ GlobeInitializeResume
    \/ GlobeRender
    \/ GlobeDestroy
    \/ PointInitialize
    \/ PointInitializeResume
    \/ \E point \in PointInputs : AddPoint(point)
    \/ ClearPoints
    \/ PointRender
    \/ PointDestroy
    \/ EngineDestroyed

SpecRender == InitRender /\ [][RenderNext]_vars

\* ------------------------------------------------------------ PointLayer
\* A PointLayer on an Engine that has its device and may lose it.
InitPoints == InitGlobe /\ ~showGridLines

PointNext ==
    \/ PointInitialize
    \/ PointInitializeResume
    \/ \E point \in PointInputs : AddPoint(point)
    \/ \E points \in PointArrays : AddPoints(points)
    \/ ClearPoints
    \/ \E visible \in BOOLEAN : PointSetVisible(visible)
    \/ PointRender
    \/ PointDestroy
    \/ EngineDestroyed

SpecPoints == InitPoints /\ [][PointNext]_vars

\* ------------------------------- GlobeRenderer between initialize and destroy
\* initialize() has returned true and destroy() has not been called since.
GlobeInitialized == globePc = "idle" /\ "pipeline" \in renderer

\* The depth textures created so far.
DepthTexturesCreated ==
    Cardinality({i \in DOMAIN gpuBuffers : gpuBuffers[i].field = "depthTexture"})

\* Renderer lives with the grid switched: initialize() is called on a
\* renderer that is not initialized, setGridLinesVisible while it is,
\* render() and destroy() at any time.
GridNext ==
    \/ ~GlobeInitialized /\ GlobeInitialize
    \/ GlobeInitializeResume
    \/ GlobeRender
    \/ \E visible \in BOOLEAN : GlobeInitialized /\ GlobeSetGridLinesVisible(visible)
    \/ GlobeDestroy

SpecGrid == InitGlobe /\ [][GridNext]_vars

\* One renderer life with the canvas resized: initialize() is called once;
\* frames, canvas resizes (until MaxResizes of them have led to a new depth
\* texture) and destroy() come at any time.
DepthNext ==
    \/ initCalls = 0 /\ GlobeInitialize
    \/ GlobeInitializeResume
    \/ GlobeRender
    \/ \E size \in CanvasSizes : DepthTexturesCreated <= MaxResizes /\ CanvasResize(size)
    \/ GlobeDestroy

SpecDepth == InitGlobe /\ [][DepthNext]_vars

\* ------------------------------------------------------- the map as a whole
MapLayerNext ==
    \/ \E id \in PointIds : AddPointLayer(id)
    \/ \E c \in BagToSet(pending) : AddLayerResume(c)
    \/ \E id \in PointIds : RemoveLayer(id)

NextMap ==
    \/ EngineAdapterResume
    \/ EngineDeviceResume
    \/ MapInitResume
    \/ RendererInitResume
    \/ MapInitFinish
    \/ FrameTick
    \/ Stop
    \/ Destroy
    \/ MapLayerNext

SpecMap == Init /\ [][NextMap]_vars

\* ================================================================ claims
ZOf(id) == MapGet(layers, id).zIndex

\* Position of id's entry in the map: the order in which the registered
\* layers were added.
InsertionRank(id) == CHOOSE i \in 1..Len(layers) : layers[i].id = id

Others(s, id) == SelectSeq(s, LAMBDA x : x # id)

Distinct(s) == \A i, j \in 1..Len(s) : s[i] = s[j] => i = j

\* C1: a call of addLayer that returns false (the id is already registered,
\* or initialize() resolved false) changes neither the id -> layer map (its
\* entries and their state) nor the render order, and destroys no layer.
C1_RejectedAddChangesNothing ==
    [][(lastCall'.op = "addLayer" /\ lastCall'.ret = "false")
         => (layers' = layers /\ layerOrder' = layerOrder
             /\ destroyCalls' = NoDestroys)]_vars

\* addLayer has just returned false for an id that is registered, with
\* another layer registered next to it.
C1_Witness ==
    /\ lastCall = Call("addLayer", lastCall.id, "false")
    /\ Has(lastCall.id)
    /\ Len(layers) >= 2
    /\ Len(layerOrder) >= 2

\* C2: a frame tick that draws runs LayerManager.update, then the globe
\* draw, then render() of every visible registered layer in render order,
\* then the submit.
C2_FrameRendersLayers ==
    (lastCall.op = "frame" /\ RenderReady)
        => frameLog = LayerEvents("update", layerOrder) \o <<<<"globe", "">>>>
                      \o LayerEvents("render", layerOrder) \o <<<<"submit", "">>>>

\* C3: once stop() has been called no frame is scheduled and no frame tick
\* runs, whenever stop() was called.
C3_NoFrameAfterStop ==
    stopCalled => (~frameScheduled /\ lastCall.op # "frame")

\* C4: once destroy() has been called the map stays torn down: no frame is
\* scheduled, no layer is registered, the renderer and the engine hold no
\* GPU handle.
C4_DestroyedStaysTornDown ==
    destroyCalled =>
        /\ ~frameScheduled
        /\ layers = <<>> /\ layerOrder = <<>>
        /\ renderer = {}
        /\ ~engine.device /\ ~engine.context

\* C5: an addLayer / addPointLayer call never throws or rejects: it ends
\* with true or false.
C5_AddLayerNeverThrows ==
    lastCall.op = "addLayer" => lastCall.ret \in {"pending", "true", "false"}

\* C6: when GPU bring-up fails (Engine.initialize() has returned false) the
\* render loop is not started, the renderer is not initialized and the
\* Engine holds neither a device nor a context.
C6_FailedInitHoldsNothing ==
    (gpuEnv # "ok" /\ ~destroyCalled /\ initPc \in {"engineFalse", "failed"})
        => /\ ~frameScheduled
           /\ renderer = {}
           /\ ~engine.device /\ ~engine.context

\* C7: after a successful addLayer or setLayerZIndex the render order is
\* sorted by zIndex: of two registered layers, the one with the strictly
\* lower zIndex comes earlier.
C7_OrderSortedByZIndex ==
    (lastCall.op \in {"addLayer", "setLayerZIndex"} /\ lastCall.ret = "true")
        => \A i, j \in 1..Len(layerOrder) :
              (Has(layerOrder[i]) /\ Has(layerOrder[j])
               /\ ZOf(layerOrder[i]) < ZOf(layerOrder[j])) => i < j

\* setLayerZIndex has just moved the layer added first behind a layer added
\* later.
C7_Witness ==
    /\ lastCall.op = "setLayerZIndex" /\ lastCall.ret = "true"
    /\ Len(layerOrder) = 3 /\ Distinct(layerOrder)
    /\ layerOrder[3] = layers[1].id /\ layerOrder[3] = lastCall.id
    /\ ZOf(layerOrder[1]) < ZOf(layerOrder[2])
    /\ ZOf(layerOrder[2]) < ZOf(layerOrder[3])

\* C8: after a re-sort (a successful addLayer or setLayerZIndex) two
\* registered layers with equal zIndex stand in the order in which they were
\* added.
C8_TiesInInsertionOrder ==
    (lastCall.op \in {"addLayer", "setLayerZIndex"} /\ lastCall.ret = "true")
        => \A i, j \in 1..Len(layerOrder) :
              (i < j /\ layerOrder[i] # layerOrder[j]
               /\ Has(layerOrder[i]) /\ Has(layerOrder[j])
               /\ ZOf(layerOrder[i]) = ZOf(layerOrder[j]))
                  => InsertionRank(layerOrder[i]) < InsertionRank(layerOrder[j])

\* C9: removeLayer(id) of a registered id calls that layer's destroy() once
\* and no other, removes the id from the map and from the render order,
\* leaves every other layer's entry and relative order as they were and
\* returns true; of an unregistered id it returns false, destroys nothing
\* and changes nothing.
C9_RemoveLayerExact ==
    [][lastCall'.op = "removeLayer" =>
         IF Has(lastCall'.id)
         THEN /\ lastCall'.ret = "true"
              /\ destroyCalls' = [NoDestroys EXCEPT ![lastCall'.id] = 1]
              /\ layers' = MapDelete(layers, lastCall'.id)
              /\ layerOrder' = Others(layerOrder, lastCall'.id)
         ELSE /\ lastCall'.ret = "false"
              /\ destroyCalls' = NoDestroys
              /\ layers' = layers /\ layerOrder' = layerOrder]_vars

\* C10: moveLayerToTop / moveLayerToBottom of a registered id makes the id
\* the last / first element of the render order, keeps the relative order
\* of all other ids and changes no zIndex and no map entry; of an
\* unregistered id it returns false and changes nothing.
C10_MoveToEnd ==
    [][lastCall'.op \in {"moveLayerToTop", "moveLayerToBottom"} =>
         IF Has(lastCall'.id)
         THEN /\ lastCall'.ret = "true"
              /\ Len(layerOrder') = Len(layerOrder)
              /\ layerOrder'[IF lastCall'.op = "moveLayerToTop"
                             THEN Len(layerOrder') ELSE 1] = lastCall'.id
              /\ Others(layerOrder', lastCall'.id) = Others(layerOrder, lastCall'.id)
              /\ layers' = layers
              /\ destroyCalls' = NoDestroys
         ELSE /\ lastCall'.ret = "false"
              /\ layers' = layers /\ layerOrder' = layerOrder
              /\ destroyCalls' = NoDestroys]_vars

\* moveLayerToTop has just put a layer last although its zIndex is the lowest
\* of three distinct registered layers.
C10_Witness ==
    /\ lastCall.op = "moveLayerToTop" /\ lastCall.ret = "true"
    /\ Len(layerOrder) = 3 /\ Distinct(layerOrder)
    /\ \A i \in 1..3 : Has(layerOrder[i])
    /\ layerOrder[3] = lastCall.id
    /\ ZOf(layerOrder[3]) < ZOf(layerOrder[1])
    /\ ZOf(layerOrder[1]) <= ZOf(layerOrder[2])

\* C11: clear() and LayerManager.destroy() call destroy() once on every
\* registered layer and on no other, and leave the map and the render order
\* empty; in particular, on an empty manager they call no destroy() and
\* leave it empty.
C11_ClearDestroysEachOnce ==
    [][lastCall'.op \in {"clear", "LayerManager.destroy"} =>
         /\ \A id \in Ids : destroyCalls'[id] = (IF Has(id) THEN 1 ELSE 0)
         /\ layers' = <<>>
         /\ layerOrder' = <<>>]_vars

\* LayerManager.destroy() has just destroyed two registered layers and
\* emptied the manager.
C11_Witness ==
    /\ lastCall.op = "LayerManager.destroy"
    /\ Cardinality({id \in Ids : destroyCalls[id] = 1}) >= 2
    /\ layers = <<>> /\ layerOrder = <<>>

\* C13: setZoom(z) leaves the zoom equal to z clamped into [0.5, 10], the
\* camera at distance 3 / zoom from the origin, and its direction from the
\* origin as it was.
C13_SetZoomClamps ==
    [][lastCall'.op = "setZoom" =>
         LET z == lastCall'.arg
         IN /\ ~zoom'.nan
            /\ Leq(Ratio(1, 2), zoom') /\ Leq(zoom', Ratio(10, 1))
            /\ (~z.nan /\ Leq(Ratio(1, 2), z) /\ Leq(z, Ratio(10, 1))) => zoom' = z
            /\ (~z.nan /\ Leq(z, Ratio(1, 2))) => zoom' = Ratio(1, 2)
            /\ (~z.nan /\ Leq(Ratio(10, 1), z)) => zoom' = Ratio(10, 1)
            /\ ~camera'.nan
            /\ Times(camera'.dist, zoom') = Ratio(3, 1)
            /\ camera'.polar = camera.polar
            /\ camera'.yaw = camera.yaw]_vars

\* C14: the camera is never on the world Y axis (position - target parallel
\* to the up vector), whatever options.center was and whatever setCenter,
\* drag, key and auto-rotate operations followed.
C14_NeverOnYAxis == ~OnYAxis(camera)

InsideOrbitInterval(polar) ==
    /\ AngSign(AngSub(polar, Ang(0, 20))) > 0
    /\ AngSign(AngSub(Ang(180, 0 - 20), polar)) > 0

\* C15: a vertical orbit step (up / down key, drag) changes the camera's
\* angle from world-up only to a value strictly inside (0.1, pi - 0.1); a
\* key step whose result would lie outside leaves the camera exactly as it
\* was; so from inside the interval no such step leads outside.
C15_VerticalOrbitGuarded ==
    [][((lastCall'.op = "keydown" /\ lastCall'.id \in {"ArrowUp", "ArrowDown"})
        \/ lastCall'.op = "mousemove") =>
         /\ camera'.polar # camera.polar => InsideOrbitInterval(camera'.polar)
         /\ InsideOrbitInterval(camera.polar) => InsideOrbitInterval(camera'.polar)
         /\ lastCall'.op = "keydown" =>
               LET t == Fold(AngSub(camera.polar,
                                    Ang(0, IF lastCall'.id = "ArrowUp" THEN 20 ELSE 0 - 20))).polar
               IN IF InsideOrbitInterval(t) /\ ~OnYAxis(camera)
                  THEN camera'.polar = t
                  ELSE camera' = camera]_vars

\* An up-key step has just been rejected or has just reached the last
\* position before the upper boundary: one more step up would leave the
\* interval.
C15_Witness ==
    /\ lastCall = Call("keydown", "ArrowUp", "void")
    /\ InsideOrbitInterval(camera.polar)
    /\ ~InsideOrbitInterval(AngSub(camera.polar, Ang(0, 20)))

InUnitInterval(x) == ~x.nan /\ 0 <= x.n /\ x.n <= x.d

\* C12: update() and render() call update() / render() on the registered
\* layers that are visible at that moment, in render order, and on no
\* layer that is invisible.
C12_VisibleLayersInOrder ==
    lastCall.op \in {"update", "render"} =>
        /\ Len(frameLog) = Len(SelectSeq(layerOrder, LAMBDA id : Has(id) /\ MapGet(layers, id).visible))
        /\ \A k \in 1..Len(frameLog) :
              /\ frameLog[k][1] = lastCall.op
              /\ frameLog[k][2] =
                    SelectSeq(layerOrder, LAMBDA id : Has(id) /\ MapGet(layers, id).visible)[k]
        /\ \A k \in 1..Len(frameLog) :
              Has(frameLog[k][2]) /\ MapGet(layers, frameLog[k][2]).visible

\* render() has just run with one layer hidden by setLayerVisible and
\* another one visible: only the visible one was rendered.
C12_Witness ==
    /\ lastCall.op = "render"
    /\ Len(layers) = 2 /\ Len(layerOrder) = 2
    /\ ~MapGet(layers, layerOrder[1]).visible
    /\ MapGet(layers, layerOrder[2]).visible
    /\ frameLog = <<<<"render", layerOrder[2]>>>>

\* C16: setLayerVisible, setLayerOpacity and setLayerZIndex return false and
\* change nothing for an id that is not registered and return true for a
\* registered one; and every registered layer's opacity lies in [0, 1].
C16_SettersAndOpacityRange ==
    [][/\ \A i \in 1..Len(layers') : InUnitInterval(layers'[i].opacity)
       /\ lastCall'.op \in {"setLayerVisible", "setLayerOpacity", "setLayerZIndex"} =>
             IF Has(lastCall'.id)
             THEN lastCall'.ret = "true"
             ELSE /\ lastCall'.ret = "false"
                  /\ layers' = layers /\ layerOrder' = layerOrder
                  /\ destroyCalls' = NoDestroys]_vars

\* C17: for every longitude in (-180, 180), latitude in (-90, 90), altitude
\* and base radius > 0, cartesianToLonLat applied to the result of
\* lonLatToCartesian returns the longitude, latitude and altitude it was
\* given, whatever the base radius.  (Stated for the altitudes that leave the
\* point off the centre and on the same side of it, r > 0.)
C17_RoundTrip ==
    geo.out # <<>> /\ ~Leq(ShellRadius(geo.alt, geo.radius), Ratio(0, 1))
        => geo.out = <<geo.lon, geo.lat, geo.alt>>

\* C18: the TextureManager keeps at most one live GPU texture per cache key,
\* whatever the sequence and interleaving of createDefaultEarthTexture,
\* createDefaultNormalTexture and loadTextureFromURL: every texture it
\* created and that has not been destroyed is the one its key is cached
\* under, and no texture is destroyed twice.
C18_OneLiveTexturePerKey ==
    \A i \in DOMAIN gpuTextures :
        /\ gpuTextures[i].destroyed <= 1
        /\ gpuTextures[i].destroyed = 0 => textureCache[gpuTextures[i].key] = i

\* C19: after any sequence of initialize, render, canvas resize and
\* setGridLinesVisible calls followed by GlobeRenderer.destroy(), every GPU
\* buffer and texture the renderer created has had destroy() called exactly
\* once and every handle field is null; a second destroy() destroys nothing
\* again.  (Stated for a renderer whose initialize() was called at most once
\* and is not suspended.)
C19_DestroyReleasesAll ==
    lastCall.op = "GlobeRenderer.destroy" /\ globePc = "idle" /\ initCalls <= 1
        => /\ \A i \in DOMAIN gpuBuffers : gpuBuffers[i].destroyed = 1
           /\ \A i \in DOMAIN gpuTextures : gpuTextures[i].destroyed = 1
           /\ handles = NoHandles
           /\ renderer = {}

\* C20: in every frame in which the grid is drawn, the grid pipeline in use
\* has depth-write disabled and alpha blending enabled, whether it was
\* created by initialize() (showGridLines true at construction) or by the
\* first setGridLinesVisible(true).
C20_GridDrawnWithoutDepthWrite ==
    lastCall.op = "GlobeRenderer.render" /\ (\E i \in DOMAIN frameLog : frameLog[i][1] = "grid")
        => ~gridPipeline.depthWriteEnabled /\ gridPipeline.blend

\* C26: in every reachable state of the LayerManager the render order holds
\* exactly the keys of the id -> layer map, each exactly once, whatever
\* addLayer calls were suspended at their await while removeLayer, clear and
\* other addLayer calls ran.
C26_OrderIsTheMapKeys ==
    /\ Distinct(layerOrder)
    /\ {layerOrder[i] : i \in 1..Len(layerOrder)} = {layers[i].id : i \in 1..Len(layers)}

\* C30: a placement made by moveLayerToTop(id) persists through a later
\* successful addLayer of another layer whose zIndex is not greater than
\* id's: id, moved to the end of two or more layers, is still the last
\* element of the render order.
C30_TopPlacementPersists ==
    [][(/\ lastCall.op = "moveLayerToTop" /\ lastCall.ret = "true"
        /\ lastCall'.op = "addLayer" /\ lastCall'.ret = "true"
        /\ lastCall'.id # lastCall.id
        /\ Has(lastCall.id)
        /\ Len(layerOrder) >= 2 /\ Distinct(layerOrder')
        /\ MapGet(layers', lastCall'.id).zIndex <= ZOf(lastCall.id))
         => layerOrder'[Len(layerOrder')] = lastCall.id]_vars

\* C28: setCenter(lon, lat) places the camera on the ray from the origin
\* through the point lonLatToCartesian gives for (lon, lat): the camera
\* position is (3 / zoom) times lonLatToCartesian(lon, lat, 0, 1), component
\* by component (at the cardinal longitudes 0, 90, -90, 180 with lat 0).
C28_CameraOverCenter ==
    (lastCall.op = "setCenter" /\ ~camera.nan) =>
        LET p == LonLatToCartesian(Angle("deg", center[1] \div 90, 0),
                                   Angle("deg", center[2] \div 90, 0),
                                   Ratio(0, 1), Ratio(1, 1))
            d == Over(Ratio(3, 1), zoom)
        IN CameraPosition(camera) = <<Times(d, p[1]), Times(d, p[2]), Times(d, p[3])>>

\* C29: once initialization has completed, for every options.zoom and every
\* sequence of setZoom, setCenter, wheel, key, drag and auto-rotate
\* operations, the zoom lies in [0.5, 10] and the camera is at distance
\* 3 / zoom from the origin.
C29_ZoomInRangeAndDistance ==
    initPc = "done" =>
        /\ ~zoom.nan /\ Leq(Ratio(1, 2), zoom) /\ Leq(zoom, Ratio(10, 1))
        /\ ~camera.nan /\ Times(camera.dist, zoom) = Ratio(3, 1)

\* C27: whenever render() draws the globe, the bind group it sets at slot 0
\* was created with the globe pipeline's own bind group layout.
C27_GlobeDrawnWithItsOwnLayout ==
    (lastCall.op = "GlobeRenderer.render" /\ frameLog # <<>>)
        => uniformBindGroup = "globeLayout"

\* The depth textures created so far that have not been destroyed.
LiveDepthTextures ==
    {i \in DOMAIN gpuBuffers :
        gpuBuffers[i].field = "depthTexture" /\ gpuBuffers[i].destroyed = 0}

\* C23: a frame allocates a depth texture only if the canvas size differs
\* from the cached size or there is no depth texture; the one held before is
\* destroyed by then, so at most one depth texture is live; and at every draw
\* the depth texture held is live and has the size of the canvas.
C23_DepthTextureFollowsCanvas ==
    [][/\ Cardinality(LiveDepthTextures') <= 1
       /\ lastCall'.op = "GlobeRenderer.render" =>
            /\ Len(gpuBuffers') > Len(gpuBuffers) =>
                  /\ canvas # canvasWidth \/ handles["depthTexture"] = 0
                  /\ LiveDepthTextures' = {Len(gpuBuffers')}
            /\ frameLog' # <<>> =>
                  /\ handles'["depthTexture"] \in LiveDepthTextures'
                  /\ gpuBuffers'[handles'["depthTexture"]].size = canvas']_vars

\* A frame drawn after the canvas changed its height only: the depth texture
\* made by initialize() is destroyed and the one held has the new size.
C23_Witness ==
    /\ lastCall.op = "GlobeRenderer.render"
    /\ frameLog # <<>>
    /\ canvas = <<1, 2>>
    /\ \E i \in DOMAIN gpuBuffers :
         /\ gpuBuffers[i].field = "depthTexture"
         /\ gpuBuffers[i].size = <<1, 1>>
         /\ gpuBuffers[i].destroyed = 1
    /\ handles["depthTexture"] # 0
    /\ gpuBuffers[handles["depthTexture"]].size = <<1, 2>>

\* The buffers created for a grid field that have not been destroyed.
LiveGridBuffers(field) ==
    {i \in DOMAIN gpuBuffers :
        gpuBuffers[i].field = field /\ gpuBuffers[i].destroyed = 0}

\* C21: between initialize() and destroy(), at most one buffer made for
\* each grid field is alive (none was made over another), and a
\* setGridLinesVisible call re-creates no grid resource that exists:
\* switching the grid off changes the flag and nothing else, switching it on
\* with the resources there changes the flag and nothing else, and a call
\* with the value the flag already has changes nothing.
C21_GridResourcesCreatedOnce ==
    [][/\ GlobeInitialized' =>
            /\ Cardinality(LiveGridBuffers("gridVertexBuffer")') <= 1
            /\ Cardinality(LiveGridBuffers("gridIndexBuffer")') <= 1
       /\ lastCall'.op = "GlobeRenderer.setGridLinesVisible" =>
            /\ showGridLines' = showGridLines =>
                  UNCHANGED <<globeVars, texVars, renderer, frameLog>>
            /\ ~showGridLines' \/ (gridPipeline.created /\ handles["gridVertexBuffer"] # 0) =>
                  UNCHANGED <<handles, gpuBuffers, gridPipeline, uniformBindGroup,
                              canvasWidth, texVars, renderer, frameLog>>
            /\ gridPipeline.created => gridPipeline' = gridPipeline
            /\ handles["gridVertexBuffer"] # 0 =>
                  gpuBuffers' = gpuBuffers /\ handles' = handles]_vars

\* A renderer built without grid lines had the grid switched on (which
\* created the grid resources), off and on again, and draws the grid: one
\* grid vertex buffer and one grid index buffer are alive, the ones held.
C21_Witness ==
    /\ lastCall.op = "GlobeRenderer.render"
    /\ \E i \in DOMAIN frameLog : frameLog[i][1] = "grid"
    /\ gridPipeline = GridPipeline
    /\ gridSwitches = 3
    /\ initCalls = 1
    /\ LiveGridBuffers("gridVertexBuffer") = {handles["gridVertexBuffer"]}
    /\ LiveGridBuffers("gridIndexBuffer") = {handles["gridIndexBuffer"]}

\* C25: for segments n >= 1 a generator that has run to its end has emitted
\* (n + 1)^2 vertices (8 numbers each in the enhanced variant, 3 in the
\* first), 6 n (n - 1) indices in the enhanced variant and 6 n^2 in the
\* first, and every index is below (n + 1)^2.
C25_SphereCounts ==
    sphere.pc = "done" =>
        LET n == sphere.segments
        IN /\ sphere.vertices = (n + 1) * (n + 1)
           /\ sphere.floats = FloatsPerVertex(sphere.variant) * (n + 1) * (n + 1)
           /\ Len(sphere.indices) = IF sphere.variant = "createEnhancedSphereGeometry"
                                    THEN 6 * n * (n - 1)
                                    ELSE 6 * n * n
           /\ \A i \in DOMAIN sphere.indices :
                 sphere.indices[i] >= 0 /\ sphere.indices[i] < (n + 1) * (n + 1)

\* The enhanced generator has finished for 3 segments: 16 vertices, 36
\* indices, the last vertex (index 15) not referenced by any triangle
\* but index 14 is.
C25_Witness ==
    /\ sphere.pc = "done"
    /\ sphere.variant = "createEnhancedSphereGeometry"
    /\ sphere.segments = 3
    /\ sphere.vertices = 16
    /\ Len(sphere.indices) = 36
    /\ \E i \in DOMAIN sphere.indices : sphere.indices[i] = 14

\* What render() of the renderer and of the layer require.
GlobeResourcesThere == GlobeInitialized /\ engine.device /\ engine.context

PointResourcesThere ==
    /\ pointLayer.pc = "idle"
    /\ pointLayer.pipeline /\ pointLayer.bindGroup /\ pointLayer.uniformBuffer # 0
    /\ engine.device /\ engine.context

LivePointVertexBuffers ==
    {i \in DOMAIN pointBuffers :
        pointBuffers[i].field = "vertexBuffer" /\ pointBuffers[i].destroyed = 0}

====
